---- MODULE Spec2Model ----
(***************************************************************************)
(* Workflow execution in AGI_Assistant.                                    *)
(*                                                                         *)
(* Two executors live in the repository:                                   *)
(*   - WorkflowExecutor.execute (src/src/automation/executor.py): runs the *)
(*     steps of a stored workflow sequentially, records a StepResult per   *)
(*     step and returns an ExecutionResult dictionary;                     *)
(*   - WorkflowExecutor.execute_workflow (src/automation_executor.py):     *)
(*     runs a list of actions on a background thread while the GUI thread  *)
(*     may call pause(), resume() and stop(); it reports through a         *)
(*     callback and returns nothing.                                       *)
(* A behaviour of Spec is one run of one operation, chosen by Init: one of  *)
(* the two executors, PatternDetector.detect_patterns,                     *)
(* WorkflowGenerator.generate_workflow, a round trip through the Database  *)
(* or LearningEngine.learn_from_session against the store.                 *)
(***************************************************************************)
EXTENDS Integers, Sequences, FiniteSets, TLC

\* ---------------------------------------------------------------- bounds
MaxSteps == 3        \* longest step list given to execute
MaxActions == 3      \* longest action list given to execute_workflow
MaxSessions == 3     \* most sessions given to detect_patterns
MaxStored == 3       \* most rows of the sessions table
MaxLen == 3          \* longest sequence given to _calculate_similarity
MaxEntries == 3      \* longest timeline given to _extract_action_sequence
MaxShift == 2        \* largest offset between two recordings of a timeline
MaxRuns == 3         \* most runs of the stored workflow
MaxCompared == 2     \* longest timeline given to both similarity paths
MaxRecorded == 3     \* most sessions recorded through the pipeline
MaxLaunches == 2     \* most launches of a workflow from one AutomationGUI

\* ------------------------------------------------------------- constants
None == "None"
NoResult == [kind |-> "None"]       \* a Python function returning None

\* INTELLIGENCE_CONFIG["pattern_detection"]: min_similarity = 0.80 = 4/5
min_similarity_num == 4
min_similarity_den == 5
min_occurrences == 3
max_retries == 3
\* `for i in range(3, 0, -1)` of execute_selected
Countdown == 3

\* keys of WorkflowExecutor.action_handlers
action_handlers ==
    { "click", "double_click", "right_click", "type", "press_key", "hotkey",
      "scroll", "move_mouse", "launch_app", "close_app", "switch_window",
      "navigate", "click_element", "fill_form", "select_dropdown",
      "open_file", "save_file", "move_file", "rename_file" }

\* action types the modelled workflows draw from: one with a handler, one without
StepActionTypes == { "click", "teleport" }

\* verification hints: absent, or the "expect a screen change" hint
Verifications == { "", "screen_changed" }

\* wait_after values: the default, and a negative one (int() keeps the sign)
WaitAfters == { 500, -100 }

StepSet == [action_type : StepActionTypes, verification : Verifications,
            wait_after : WaitAfters]

RECURSIVE SeqsUpTo(_, _)
SeqsUpTo(S, n) ==
    IF n = 0 THEN { <<>> }
    ELSE LET shorter == SeqsUpTo(S, n - 1)
         IN  shorter \cup { Append(s, x) : s \in { t \in shorter : Len(t) = n - 1 }, x \in S }

\* a workflow dictionary: "steps" may be missing altogether
Workflows ==
    { [has_steps |-> TRUE, steps |-> s] : s \in SeqsUpTo(StepSet, MaxSteps) }
        \cup { [has_steps |-> FALSE, steps |-> <<>>] }

VARIABLES
    mode,               \* which executor this behaviour runs
    \* --- WorkflowExecutor.execute
    workflow,           \* the argument of execute
    pc,                 \* position in execute
    i,                  \* enumerate(steps, 1) index of the current step
    success,            \* local `success`
    error,              \* local `error`
    results,            \* local `results`, the StepResults
    handler_calls,      \* indices of the steps dispatched to a handler
    verify_calls,       \* indices of the steps given to verifier.verify
    step_calls,         \* per step: what its handler and the verifier returned
    outcomes,           \* final outcome of each step, in order
    execution_result,   \* what the executor returned to its caller
    \* --- WorkflowExecutor.execute_workflow and its controls
    available,          \* self.available (PYAUTOGUI_AVAILABLE)
    actions,            \* workflow['actions'], a list of action labels
    is_running,         \* self.is_running
    paused,             \* self.paused
    ew_pc,              \* position of the execution thread
    ew_i,               \* enumerate(actions) index + 1
    callbacks,          \* kinds of the messages passed to `callback`
    dispatched,         \* indices of the actions given to _execute_action
    failed_at,          \* index of the first action whose handler raised, 0 if none
    stop_called,        \* stop() was called between the run's start and its end
    dispatched_at_stop, \* Len(dispatched) at the first such stop()
    stopped_in_pause,   \* stop() was called while the loop waited behind a pause
    pause_seen,         \* the pause loop was entered at least once
    \* --- PatternDetector.detect_patterns
    sessions,           \* the argument: a list of session dictionaries
    pd_pc,              \* position in detect_patterns
    sequences,          \* local `sequences`: session_id and action sequence
    pd_i, pd_j,         \* indices of the pair loop (1-based)
    patterns,           \* local `patterns`: the candidate patterns
    pd_k,               \* index of the candidate _group_patterns looks at
    grouped,            \* local `grouped` of _group_patterns
    pd_result,          \* what detect_patterns returned
    \* --- WorkflowGenerator.generate_workflow and LLMInterface
    gen_timeline,       \* the argument's "timeline" entries
    llm_reply,          \* the text the model answers with when ollama.chat succeeds
    is_connected,       \* self.is_connected
    gen_pc,             \* position in generate_workflow
    attempt,            \* `attempt` of the retry loop in generate
    response_text,      \* what generate returned
    workflow_json,      \* local `workflow_json`, by reference (see JsonValue)
    gen_workflow,       \* what generate_workflow returned
    gen_threw,          \* ollama.chat raised during this call
    gen_unavailable,    \* generate found the model unavailable
    chat_calls,         \* number of calls of ollama.chat made by generate
    \* --- Database (workflows and sessions tables)
    db_workflows,       \* the rows of the workflows table
    db_seq,             \* the last id AUTOINCREMENT gave out
    db_sessions,        \* the rows of the sessions table, with their timeline files
    st_w,               \* the workflow given to add_workflow
    st_id,              \* the id add_workflow returned
    st_got,             \* what get_workflow returned last
    st_pc,              \* position of the store's caller
    \* --- LearningEngine.learn_from_session
    le_timeline_ok,     \* timeline.json of the session exists and loads
    le_timeline,        \* its "timeline" entries
    le_pc,              \* position in learn_from_session
    similar_sessions,   \* local `similar_sessions`, by session_id
    le_result,          \* what learn_from_session returned
    db_workflows_before, \* the workflows table when learn_from_session was called
    \* --- PatternDetector._calculate_similarity and _levenshtein_distance
    sq_a, sq_b, sq_c,   \* three action sequences
    sim_pc,             \* position of the caller
    sim_ab, sim_ba,     \* _calculate_similarity(a, b) and (b, a)
    dist_ab, dist_bc, dist_ac,  \* _levenshtein_distance of the pairs
    \* --- PatternDetector._extract_action_sequence on its own
    ex_timeline,        \* the session's timeline entries
    ex_timeline_before, \* the same entries as they were before any call
    ex_retimed,         \* the same entries recorded at other times
    ex_pc,              \* position of the caller
    ex_sequence,        \* the sequence extracted from ex_timeline
    ex_sequence_retimed,\* the sequence extracted from ex_retimed
    ex_sequence_again,  \* the sequence of a second call on ex_timeline
    \* --- the store shared by the threads of MainWindow
    conn_thread,        \* the thread that opened Database.conn
    lg_pc,              \* position of the learning and the execution thread
    lg_result,          \* success of the run being logged
    lg_db,              \* what the database file holds (committed)
    lg_tx,              \* what Database.conn sees: lg_db plus its open transaction
    lg_in_tx,           \* threads with statements in the open transaction
    lg_runs,            \* number of executor runs so far
    lg_runs_succeeded,  \* number of successful executor runs so far
    lg_issued,          \* store operations each thread has called
    lg_carried_out,     \* store operations each thread has committed
    lg_partial_commit,  \* a commit published another thread's unfinished operation
    \* --- AutomationGUI: the controls and the threads it starts
    gui_is_running,     \* self.executor.is_running
    gui_paused,         \* self.executor.paused
    execute_btn,        \* state of the Execute button
    pause_btn,          \* state of the Pause button
    stop_btn,           \* state of the Stop button
    gui_countdown,      \* iterations the start countdown still has to make
    gui_threads,        \* the launches so far, each with its thread's position
    \* --- the two similarity paths side by side
    cmp_timeline1,      \* entries of the first timeline
    cmp_timeline2,      \* entries of the second timeline
    cmp_pc,             \* position of the caller
    cmp_engine,         \* LearningEngine._calculate_timeline_similarity
    cmp_detector,       \* PatternDetector similarity of the extracted sequences
    \* --- the session-processing pipeline, session after session
    pl_sessions,        \* rows of the sessions table
    pl_pc,              \* position of _process_session
    pl_timeline,        \* timeline of the session being processed
    pl_workflow,        \* id of the workflow learn_from_session returned, 0 for None
    pl_workflows,       \* number of workflows generated
    pl_recorded,        \* number of sessions recorded
    pl_unlearned_start  \* no session of the initial store had a learned_workflow_id

execute_vars == << workflow, pc, i, success, error, results, handler_calls,
                   verify_calls, step_calls, outcomes >>
ew_vars == << available, actions, is_running, paused, ew_pc, ew_i, callbacks,
              dispatched, failed_at, stop_called, dispatched_at_stop,
              stopped_in_pause, pause_seen >>
execute_vars_but_pc == << workflow, i, success, error, results, handler_calls,
                          verify_calls, step_calls, outcomes >>
pd_vars == << sessions, pd_pc, sequences, pd_i, pd_j, patterns, pd_k, grouped,
              pd_result >>
gen_vars == << gen_timeline, llm_reply, is_connected, gen_pc, attempt,
               response_text, workflow_json, gen_workflow, gen_threw,
               gen_unavailable, chat_calls >>
db_vars == << db_workflows, db_seq, db_sessions >>
st_vars == << st_w, st_id, st_got, st_pc >>
le_vars == << le_timeline_ok, le_timeline, le_pc, similar_sessions, le_result,
              db_workflows_before >>
exec_all == << execute_vars, execution_result, ew_vars >>
sim_vars == << sq_a, sq_b, sq_c, sim_pc, sim_ab, sim_ba, dist_ab, dist_bc,
               dist_ac >>
ex_vars == << ex_timeline, ex_timeline_before, ex_retimed, ex_pc, ex_sequence,
              ex_sequence_retimed, ex_sequence_again >>
lg_vars == << conn_thread, lg_pc, lg_result, lg_db, lg_tx, lg_in_tx, lg_runs,
              lg_runs_succeeded, lg_issued, lg_carried_out, lg_partial_commit >>
cmp_vars == << cmp_timeline1, cmp_timeline2, cmp_pc, cmp_engine, cmp_detector >>
pl_vars == << pl_sessions, pl_pc, pl_timeline, pl_workflow, pl_workflows,
              pl_recorded, pl_unlearned_start >>
gui_vars == << gui_is_running, gui_paused, execute_btn, pause_btn, stop_btn,
               gui_countdown, gui_threads >>
pure_vars == << sim_vars, ex_vars, lg_vars, cmp_vars, pl_vars, gui_vars >>
learn_all == << pd_vars, gen_vars, db_vars, st_vars, le_vars >>
ext_vars == << learn_all, pure_vars >>
not_pd == << exec_all, gen_vars, db_vars, st_vars, le_vars, pure_vars >>
not_gen == << exec_all, pd_vars, db_vars, st_vars, le_vars, pure_vars >>
not_st == << exec_all, pd_vars, gen_vars, le_vars, pure_vars >>
not_le == << exec_all, pd_vars, st_vars, pure_vars >>
not_sim == << exec_all, learn_all, ex_vars, lg_vars, cmp_vars, pl_vars,
    gui_vars >>
not_ex == << exec_all, learn_all, sim_vars, lg_vars, cmp_vars, pl_vars,
    gui_vars >>
not_lg == << exec_all, learn_all, sim_vars, ex_vars, cmp_vars, pl_vars,
    gui_vars >>
not_cmp == << exec_all, learn_all, sim_vars, ex_vars, lg_vars, pl_vars,
    gui_vars >>
not_pl == << exec_all, learn_all, sim_vars, ex_vars, lg_vars, cmp_vars,
    gui_vars >>
not_gui == << exec_all, learn_all, sim_vars, ex_vars, lg_vars, cmp_vars, pl_vars >>
vars == << mode, execute_vars, execution_result, ew_vars, ext_vars >>

\* ------------------------------------------------------------------ Init
ExecuteIdle ==
    /\ workflow = [has_steps |-> FALSE, steps |-> <<>>]
    /\ pc = "idle" /\ i = 0 /\ success = FALSE /\ error = None
    /\ results = <<>> /\ handler_calls = <<>> /\ verify_calls = <<>>
    /\ step_calls = <<>>
    /\ outcomes = <<>>

EWIdle ==
    /\ available = FALSE /\ actions = <<>>
    /\ is_running = FALSE /\ paused = FALSE
    /\ ew_pc = "idle" /\ ew_i = 0
    /\ callbacks = <<>> /\ dispatched = <<>>
    /\ failed_at = 0 /\ stop_called = FALSE /\ dispatched_at_stop = 0
    /\ stopped_in_pause = FALSE /\ pause_seen = FALSE

PDIdle ==
    /\ sessions = <<>> /\ pd_pc = "idle" /\ sequences = <<>>
    /\ pd_i = 0 /\ pd_j = 0 /\ patterns = <<>> /\ pd_k = 0 /\ grouped = <<>>
    /\ pd_result = <<>>

GenIdle ==
    /\ gen_timeline = <<>> /\ llm_reply = <<>> /\ is_connected = FALSE
    /\ gen_pc = "idle" /\ attempt = 0 /\ response_text = <<>>
    /\ workflow_json = "" /\ gen_workflow = NoResult
    /\ gen_threw = FALSE /\ gen_unavailable = FALSE /\ chat_calls = 0

StoreIdle ==
    /\ db_workflows = {} /\ db_seq = 0 /\ db_sessions = <<>>
    /\ st_w = NoResult /\ st_id = 0 /\ st_got = NoResult /\ st_pc = "idle"

LearnIdle ==
    /\ le_timeline_ok = FALSE /\ le_timeline = <<>> /\ le_pc = "idle"
    /\ similar_sessions = <<>> /\ le_result = NoResult
    /\ db_workflows_before = {}

SimIdle ==
    /\ sq_a = <<>> /\ sq_b = <<>> /\ sq_c = <<>> /\ sim_pc = "idle"
    /\ sim_ab = << 0, 1 >> /\ sim_ba = << 0, 1 >>
    /\ dist_ab = 0 /\ dist_bc = 0 /\ dist_ac = 0

ExIdle ==
    /\ ex_timeline = <<>> /\ ex_timeline_before = <<>> /\ ex_retimed = <<>>
    /\ ex_pc = "idle" /\ ex_sequence = <<>> /\ ex_sequence_retimed = <<>>
    /\ ex_sequence_again = <<>>

\* the workflows row of the stored workflow and its execution_logs rows
EmptyStore ==
    [execution_logs |-> <<>>, times_run |-> 0, times_succeeded |-> 0, added |-> 0]

StoreThreads == { "learning", "execution" }

LgIdle ==
    /\ conn_thread = "main"
    /\ lg_pc = [t \in StoreThreads |-> "off"]
    /\ lg_result = FALSE
    /\ lg_db = EmptyStore /\ lg_tx = EmptyStore /\ lg_in_tx = {}
    /\ lg_runs = 0 /\ lg_runs_succeeded = 0
    /\ lg_issued = [t \in StoreThreads |-> 0]
    /\ lg_carried_out = [t \in StoreThreads |-> 0]
    /\ lg_partial_commit = FALSE

CmpIdle ==
    /\ cmp_timeline1 = <<>> /\ cmp_timeline2 = <<>> /\ cmp_pc = "idle"
    /\ cmp_engine = << 0, 1 >> /\ cmp_detector = << 0, 1 >>

PlIdle ==
    /\ pl_sessions = <<>> /\ pl_pc = "idle" /\ pl_timeline = <<>>
    /\ pl_workflow = 0 /\ pl_workflows = 0 /\ pl_recorded = 0
    /\ pl_unlearned_start = FALSE

GuiIdle ==
    /\ gui_is_running = FALSE /\ gui_paused = FALSE
    /\ execute_btn = "normal" /\ pause_btn = "disabled" /\ stop_btn = "disabled"
    /\ gui_countdown = 0 /\ gui_threads = <<>>

PureIdle == SimIdle /\ ExIdle /\ LgIdle /\ CmpIdle /\ PlIdle /\ GuiIdle

LearnAllIdle == PDIdle /\ GenIdle /\ StoreIdle /\ LearnIdle

ExtIdle == LearnAllIdle /\ PureIdle

InitExecute ==
    /\ mode = "execute"
    /\ workflow \in Workflows
    /\ pc = "loop" /\ i = 0 /\ success = FALSE /\ error = None
    /\ results = <<>> /\ handler_calls = <<>> /\ verify_calls = <<>>
    /\ step_calls = <<>>
    /\ outcomes = <<>>
    /\ execution_result = NoResult
    /\ EWIdle
    /\ ExtIdle

\* ------------------------------------------- WorkflowExecutor.execute
\* steps = workflow.get("steps", [])
StepsOf(w) == IF w.has_steps THEN w.steps ELSE <<>>

\* a lookup that falls back to some handler for every action type
HasHandler_default(action_type) == TRUE

\* handler = self.action_handlers.get(action_type); `if handler:`
HasHandler(action_type) == action_type \in action_handlers

\* a gate that ignores the hint
NeedsVerification_any_hint(succ, verification) == succ

\* `if success and verification:`
NeedsVerification(succ, verification) == succ /\ verification # ""

\* a loop that goes on after a failed step
StopsRun_never(succ) == FALSE

\* `if not success: break`
StopsRun(succ) == ~succ

\* the step_result dictionary; steps carry no step_number of their own here,
\* so step.get("step_number", i) is i
StepResult(n, step, succ, err) ==
    [step_number |-> n, action_type |-> step.action_type,
     success |-> succ, error |-> err]

\* overall success that also asks for at least one recorded step
overall_success_nonempty(rs) == rs # <<>> /\ \A k \in 1..Len(rs) : rs[k].success

\* overall_success = all(r["success"] for r in results)
overall_success(rs) == \A k \in 1..Len(rs) : rs[k].success

\* steps_completed counting every recorded step, failed ones included
steps_completed_recorded(rs) == Len(rs)

\* steps_completed = sum(1 for r in results if r["success"])
steps_completed(rs) == Cardinality({ k \in 1..Len(rs) : rs[k].success })

\* results[-1]["error"] if results and not overall_success else None
error_message(rs) ==
    IF rs # <<>> /\ ~overall_success(rs) THEN rs[Len(rs)].error ELSE None

\* the execution_result dictionary
ExecutionResult(w, rs) ==
    [kind |-> "ExecutionResult",
     workflow_id |-> "id", started_at |-> "start_time", completed_at |-> "end_time",
     success |-> overall_success(rs),
     steps_completed |-> steps_completed(rs),
     steps_total |-> Len(StepsOf(w)),
     steps |-> rs,
     error_message |-> error_message(rs)]

\* lines 74-94, 98-100: next step has a handler; the handler returns True,
\* returns False or raises (the exception is caught and recorded)
execute_handler ==
    /\ mode = "execute" /\ pc = "loop" /\ i < Len(StepsOf(workflow))
    /\ HasHandler(StepsOf(workflow)[i + 1].action_type)
    /\ \E r \in { "true", "false", "raise" } :
          /\ success' = (r = "true")
          /\ error' = IF r = "raise" THEN "exception" ELSE None
          /\ step_calls' = Append(step_calls, [handler |-> r, verify |-> "not called"])
    /\ handler_calls' = Append(handler_calls, i + 1)
    /\ i' = i + 1
    /\ pc' = "sleep"
    /\ UNCHANGED << mode, ext_vars, workflow, results, verify_calls, outcomes,
                    execution_result, ew_vars >>

\* lines 74-92, 95-97: no handler for the step's action_type
execute_unknown_action ==
    /\ mode = "execute" /\ pc = "loop" /\ i < Len(StepsOf(workflow))
    /\ ~HasHandler(StepsOf(workflow)[i + 1].action_type)
    /\ success' = FALSE
    /\ error' = "Unknown action type"
    /\ step_calls' = Append(step_calls, [handler |-> "no handler", verify |-> "not called"])
    /\ i' = i + 1
    /\ pc' = "sleep"
    /\ UNCHANGED << mode, ext_vars, workflow, results, handler_calls, verify_calls,
                    outcomes, execution_result, ew_vars >>

\* line 103: time.sleep(wait_after / 1000.0); a negative length raises
\* ValueError, which nothing in execute catches
execute_sleep ==
    /\ mode = "execute" /\ pc = "sleep"
    /\ pc' = IF StepsOf(workflow)[i].wait_after < 0 THEN "raised" ELSE "verify"
    /\ UNCHANGED << mode, ext_vars, workflow, i, success, error, results, handler_calls,
                    verify_calls, step_calls, outcomes, execution_result, ew_vars >>

\* lines 106-117: the verifier is asked only for a successful step with a hint
execute_verify ==
    /\ mode = "execute" /\ pc = "verify"
    /\ IF NeedsVerification(success, StepsOf(workflow)[i].verification)
       THEN /\ \E verification_result \in BOOLEAN :
                 /\ success' = verification_result
                 /\ step_calls' = [step_calls EXCEPT ![i].verify =
                                      IF verification_result THEN "true" ELSE "false"]
            /\ verify_calls' = Append(verify_calls, i)
       ELSE UNCHANGED << success, verify_calls, step_calls >>
    /\ outcomes' = Append(outcomes, success')
    /\ pc' = "record"
    /\ UNCHANGED << mode, ext_vars, workflow, i, error, results, handler_calls,
                    execution_result, ew_vars >>

\* lines 119-134: record the step result; stop if the step failed
execute_record ==
    /\ mode = "execute" /\ pc = "record"
    /\ results' = Append(results, StepResult(i, StepsOf(workflow)[i], success, error))
    /\ pc' = IF StopsRun(success) THEN "finish" ELSE "loop"
    /\ UNCHANGED << mode, ext_vars, workflow, i, success, error, handler_calls,
                    verify_calls, step_calls, outcomes, execution_result, ew_vars >>

\* line 74: the step list is exhausted
execute_loop_end ==
    /\ mode = "execute" /\ pc = "loop" /\ i = Len(StepsOf(workflow))
    /\ pc' = "finish"
    /\ UNCHANGED << mode, ext_vars, workflow, i, success, error, results, handler_calls,
                    verify_calls, step_calls, outcomes, execution_result, ew_vars >>

\* lines 136-156: aggregate and return
execute_return ==
    /\ mode = "execute" /\ pc = "finish"
    /\ execution_result' = ExecutionResult(workflow, results)
    /\ pc' = "returned"
    /\ UNCHANGED << mode, ext_vars, execute_vars_but_pc, ew_vars >>

execute ==
    \/ execute_handler
    \/ execute_unknown_action
    \/ execute_sleep
    \/ execute_verify
    \/ execute_record
    \/ execute_loop_end
    \/ execute_return

\* --------------------------------- WorkflowExecutor.execute_workflow
InitExecuteWorkflow ==
    /\ mode = "execute_workflow"
    /\ available \in BOOLEAN
    /\ actions \in { [k \in 1..n |-> k] : n \in 0..MaxActions }
    /\ is_running = FALSE /\ paused = FALSE
    /\ ew_pc = "start" /\ ew_i = 0
    /\ callbacks = <<>> /\ dispatched = <<>>
    /\ failed_at = 0 /\ stop_called = FALSE /\ dispatched_at_stop = 0
    /\ stopped_in_pause = FALSE /\ pause_seen = FALSE
    /\ execution_result = NoResult
    /\ ExecuteIdle
    /\ ExtIdle

\* a pause loop that looks at the pause flag only
PauseLoopCond_paused_only(p, r) == p

\* `while self.paused and self.is_running:`
PauseLoopCond(p, r) == p /\ r

\* the thread is inside the try block, before the loop has been left
InRun == ew_pc \in { "begin", "check_stop", "check_pause", "pause_sleep",
                     "dispatch", "in_action" }

\* the loop is waiting behind a pause: the thread sleeps in the loop body
WaitingBehindPause == ew_pc = "pause_sleep"

ew_ghost == << failed_at, stop_called, dispatched_at_stop, stopped_in_pause,
               pause_seen >>

\* lines 64-67: automation unavailable; returns None
ew_unavailable ==
    /\ mode = "execute_workflow" /\ ew_pc = "start" /\ ~available
    /\ callbacks' = Append(callbacks, "unavailable")
    /\ ew_pc' = "returned"
    /\ UNCHANGED << mode, ext_vars, execute_vars, execution_result, available, actions,
                    is_running, paused, ew_i, dispatched, ew_ghost >>

\* lines 69-70
ew_start ==
    /\ mode = "execute_workflow" /\ ew_pc = "start" /\ available
    /\ is_running' = TRUE
    /\ paused' = FALSE
    /\ ew_pc' = "begin"
    /\ UNCHANGED << mode, ext_vars, execute_vars, execution_result, available, actions,
                    ew_i, callbacks, dispatched, ew_ghost >>

\* lines 73-82: no actions; warn and return (through finally)
ew_no_actions ==
    /\ mode = "execute_workflow" /\ ew_pc = "begin" /\ actions = <<>>
    /\ callbacks' = callbacks \o << "starting", "warning_no_actions" >>
    /\ ew_pc' = "finally"
    /\ UNCHANGED << mode, ext_vars, execute_vars, execution_result, available, actions,
                    is_running, paused, ew_i, dispatched, ew_ghost >>

\* lines 73-84: enter the loop
ew_begin ==
    /\ mode = "execute_workflow" /\ ew_pc = "begin" /\ actions # <<>>
    /\ callbacks' = Append(callbacks, "starting")
    /\ ew_i' = 1
    /\ ew_pc' = "check_stop"
    /\ UNCHANGED << mode, ext_vars, execute_vars, execution_result, available, actions,
                    is_running, paused, dispatched, ew_ghost >>

\* line 84: the action list is exhausted
ew_loop_end ==
    /\ mode = "execute_workflow" /\ ew_pc = "check_stop" /\ ew_i > Len(actions)
    /\ ew_pc' = "after_loop"
    /\ UNCHANGED << mode, ext_vars, execute_vars, execution_result, available, actions,
                    is_running, paused, ew_i, callbacks, dispatched, ew_ghost >>

\* lines 86-89: stopped; break
ew_stopped ==
    /\ mode = "execute_workflow" /\ ew_pc = "check_stop" /\ ew_i <= Len(actions)
    /\ ~is_running
    /\ callbacks' = Append(callbacks, "stopped")
    /\ ew_pc' = "after_loop"
    /\ UNCHANGED << mode, ext_vars, execute_vars, execution_result, available, actions,
                    is_running, paused, ew_i, dispatched, ew_ghost >>

\* line 86: not stopped; go on to the pause check
ew_not_stopped ==
    /\ mode = "execute_workflow" /\ ew_pc = "check_stop" /\ ew_i <= Len(actions)
    /\ is_running
    /\ ew_pc' = "check_pause"
    /\ UNCHANGED << mode, ext_vars, execute_vars, execution_result, available, actions,
                    is_running, paused, ew_i, callbacks, dispatched, ew_ghost >>

\* line 92, condition true: enter the body of the pause loop
ew_pause_wait ==
    /\ mode = "execute_workflow" /\ ew_pc = "check_pause"
    /\ PauseLoopCond(paused, is_running)
    /\ ew_pc' = "pause_sleep"
    /\ pause_seen' = TRUE
    /\ UNCHANGED << mode, ext_vars, execute_vars, execution_result, available, actions,
                    is_running, paused, ew_i, callbacks, dispatched, failed_at,
                    stop_called, dispatched_at_stop, stopped_in_pause >>

\* a pause that is served by `continue`: the for loop moves on to the next
\* action and the one that was waiting is never run
ew_pause_sleep_continue ==
    /\ mode = "execute_workflow" /\ ew_pc = "pause_sleep"
    /\ ew_i' = ew_i + 1
    /\ ew_pc' = "check_stop"
    /\ UNCHANGED << mode, ext_vars, execute_vars, execution_result, available, actions,
                    is_running, paused, callbacks, dispatched, ew_ghost >>

\* line 93: time.sleep(0.1), then back to the loop condition
ew_pause_sleep ==
    /\ mode = "execute_workflow" /\ ew_pc = "pause_sleep"
    /\ ew_pc' = "check_pause"
    /\ UNCHANGED << mode, ext_vars, execute_vars, execution_result, available, actions,
                    is_running, paused, ew_i, callbacks, dispatched, ew_ghost >>

\* line 92, condition false: leave the pause loop; the code goes straight on
\* to the action (lines 95-100) without looking at is_running again
ew_pause_exit ==
    /\ mode = "execute_workflow" /\ ew_pc = "check_pause"
    /\ ~PauseLoopCond(paused, is_running)
    /\ ew_pc' = "dispatch"
    /\ UNCHANGED << mode, ext_vars, execute_vars, execution_result, available, actions,
                    is_running, paused, ew_i, callbacks, dispatched, ew_ghost >>

\* lines 95-100: announce the action and call _execute_action
ew_dispatch ==
    /\ mode = "execute_workflow" /\ ew_pc = "dispatch"
    /\ callbacks' = Append(callbacks, "step")
    /\ dispatched' = Append(dispatched, ew_i)
    /\ ew_pc' = "in_action"
    /\ UNCHANGED << mode, ext_vars, execute_vars, execution_result, available, actions,
                    is_running, paused, ew_i, ew_ghost >>

\* lines 100-101: _execute_action returned; sleep; next iteration
ew_action_ok ==
    /\ mode = "execute_workflow" /\ ew_pc = "in_action"
    /\ ew_i' = ew_i + 1
    /\ ew_pc' = "check_stop"
    /\ UNCHANGED << mode, ext_vars, execute_vars, execution_result, available, actions,
                    is_running, paused, callbacks, dispatched, ew_ghost >>

\* lines 102-105: _execute_action raised; the error is reported and the loop
\* goes on to the next iteration
ew_action_raised ==
    /\ mode = "execute_workflow" /\ ew_pc = "in_action"
    /\ callbacks' = Append(callbacks, "error")
    /\ failed_at' = IF failed_at = 0 THEN ew_i ELSE failed_at
    /\ ew_i' = ew_i + 1
    /\ ew_pc' = "check_stop"
    /\ UNCHANGED << mode, ext_vars, execute_vars, execution_result, available, actions,
                    is_running, paused, dispatched, stop_called,
                    dispatched_at_stop, stopped_in_pause, pause_seen >>

\* lines 107-109: report success unless stopped
ew_after_loop ==
    /\ mode = "execute_workflow" /\ ew_pc = "after_loop"
    /\ callbacks' = IF is_running THEN Append(callbacks, "completed") ELSE callbacks
    /\ ew_pc' = "finally"
    /\ UNCHANGED << mode, ext_vars, execute_vars, execution_result, available, actions,
                    is_running, paused, ew_i, dispatched, ew_ghost >>

\* lines 118-120, and the implicit `return None`
ew_finally ==
    /\ mode = "execute_workflow" /\ ew_pc = "finally"
    /\ is_running' = FALSE
    /\ paused' = FALSE
    /\ execution_result' = NoResult
    /\ ew_pc' = "returned"
    /\ UNCHANGED << mode, ext_vars, execute_vars, available, actions, ew_i, callbacks,
                    dispatched, ew_ghost >>

execute_workflow ==
    \/ ew_unavailable
    \/ ew_start
    \/ ew_no_actions
    \/ ew_begin
    \/ ew_loop_end
    \/ ew_stopped
    \/ ew_not_stopped
    \/ ew_pause_wait
    \/ ew_pause_sleep
    \/ ew_pause_exit
    \/ ew_dispatch
    \/ ew_action_ok
    \/ ew_action_raised
    \/ ew_after_loop
    \/ ew_finally

\* ---------------------------------- calls made by the controlling thread
\* The execution thread exists and has not returned
ThreadAlive == mode = "execute_workflow" /\ ew_pc \notin { "idle", "returned" }

\* WorkflowExecutor.pause
pause ==
    /\ ThreadAlive
    /\ paused' = TRUE
    /\ UNCHANGED << mode, ext_vars, execute_vars, execution_result, available, actions,
                    is_running, ew_pc, ew_i, callbacks, dispatched, ew_ghost >>

\* WorkflowExecutor.resume
resume ==
    /\ ThreadAlive
    /\ paused' = FALSE
    /\ UNCHANGED << mode, ext_vars, execute_vars, execution_result, available, actions,
                    is_running, ew_pc, ew_i, callbacks, dispatched, ew_ghost >>

\* WorkflowExecutor.stop
stop ==
    /\ ThreadAlive
    /\ is_running' = FALSE
    /\ paused' = FALSE
    /\ stop_called' = (stop_called \/ InRun)
    /\ dispatched_at_stop' =
          IF InRun /\ ~stop_called THEN Len(dispatched) ELSE dispatched_at_stop
    /\ stopped_in_pause' = (stopped_in_pause \/ WaitingBehindPause)
    /\ UNCHANGED << mode, ext_vars, execute_vars, execution_result, available, actions,
                    ew_pc, ew_i, callbacks, dispatched, failed_at, pause_seen >>

\* ------------------------------------ PatternDetector.detect_patterns
\* timeline entries: an event with its kind and data, or an OCR text entry
Ev(et, d) == [type |-> "event", event_type |-> et, data |-> d]
Ocr(t) == [type |-> "ocr", event_type |-> "", data |-> t]

\* the timelines the modelled sessions draw from
TimelineA == << Ev("mouse_press", "100,100"), Ev("key_press", "a"),
                Ev("mouse_press", "100,100"), Ev("key_press", "a"),
                Ev("mouse_press", "100,100") >>
TimelineB == << Ev("mouse_press", "100,100"), Ev("key_press", "a"),
                Ev("mouse_press", "100,100"), Ev("key_press", "a"),
                Ev("mouse_press", "105,102") >>
TimelineC == << Ev("mouse_press", "100,100"), Ev("key_press", "a"),
                Ev("mouse_press", "100,100"), Ev("key_press", "b"),
                Ev("mouse_press", "105,102") >>
TimelineD == << Ev("mouse_press", "100,100"), Ev("key_press", "a") >>
TimelineE == << Ev("mouse_press", "105,102"), Ev("key_press", "a") >>
TimelineF == << Ocr("File Edit View") >>
TimelineG == << Ocr("File Edit View"), Ev("mouse_press", "100,100"),
                Ev("key_press", "a") >>

TimelinePool == { TimelineA, TimelineB, TimelineC, TimelineD, TimelineE,
                  TimelineF, TimelineG }

Min2(a, b) == IF a <= b THEN a ELSE b
Max2(a, b) == IF a >= b THEN a ELSE b

\* _extract_action_sequence: one action string per entry of type "event"
\* an extraction whose action strings carry the entry's timestamp
RECURSIVE extract_action_sequence_timestamped(_)
extract_action_sequence_timestamped(entries) ==
    IF entries = <<>> THEN <<>>
    ELSE LET entry == Head(entries)
             at == IF "timestamp" \in DOMAIN entry THEN entry.timestamp ELSE 0
         IN  (IF entry.type = "event"
              THEN << << entry.event_type, entry.data, at >> >> ELSE <<>>)
                 \o extract_action_sequence_timestamped(Tail(entries))

RECURSIVE extract_action_sequence(_)
extract_action_sequence(entries) ==
    IF entries = <<>> THEN <<>>
    ELSE LET entry == Head(entries)
             action ==
                 IF entry.event_type = "mouse_press" THEN << "click", entry.data >>
                 ELSE IF entry.event_type = "key_press" THEN << "type", entry.data >>
                 ELSE IF entry.event_type = "window_change"
                      THEN << "switch_window", entry.data >>
                 ELSE << entry.event_type, entry.data >>
         IN  (IF entry.type = "event" THEN << action >> ELSE <<>>)
                 \o extract_action_sequence(Tail(entries))

\* a dp table in which equal elements start the count afresh
levenshtein_distance_match_resets(seq1, seq2) ==
    LET m == Len(seq1)
        n == Len(seq2)
        dp[a \in 0..m, b \in 0..n] ==
            IF a = 0 THEN b
            ELSE IF b = 0 THEN a
            ELSE IF seq1[a] = seq2[b] THEN 0
            ELSE Min2(dp[a - 1, b] + 1, Min2(dp[a, b - 1] + 1, dp[a - 1, b - 1] + 1))
    IN  dp[m, n]

\* a dp table that never takes equal elements for free
levenshtein_distance_no_match(seq1, seq2) ==
    LET m == Len(seq1)
        n == Len(seq2)
        dp[a \in 0..m, b \in 0..n] ==
            IF a = 0 THEN b
            ELSE IF b = 0 THEN a
            ELSE Min2(dp[a - 1, b] + 1, Min2(dp[a, b - 1] + 1, dp[a - 1, b - 1] + 1))
    IN  dp[m, n]

\* _levenshtein_distance: the dp table of lines 150-169
levenshtein_distance(seq1, seq2) ==
    LET m == Len(seq1)
        n == Len(seq2)
        dp[a \in 0..m, b \in 0..n] ==
            IF a = 0 THEN b
            ELSE IF b = 0 THEN a
            ELSE IF seq1[a] = seq2[b] THEN dp[a - 1, b - 1]
            ELSE Min2(dp[a - 1, b] + 1, Min2(dp[a, b - 1] + 1, dp[a - 1, b - 1] + 1))
    IN  dp[m, n]

\* a similarity normalised by the length of the first sequence
calculate_similarity_len1(seq1, seq2) ==
    IF seq1 = <<>> \/ seq2 = <<>> THEN << 0, 1 >>
    ELSE << Len(seq1) - levenshtein_distance(seq1, seq2), Len(seq1) >>

\* a similarity normalised by the length of the shorter sequence
calculate_similarity_min(seq1, seq2) ==
    IF seq1 = <<>> \/ seq2 = <<>> THEN << 0, 1 >>
    ELSE LET min_len == Min2(Len(seq1), Len(seq2))
         IN  << min_len - levenshtein_distance(seq1, seq2), min_len >>

\* _calculate_similarity, as the fraction << numerator, denominator >>:
\* 0.0 if either sequence is empty, else 1.0 - distance / max_len
calculate_similarity(seq1, seq2) ==
    IF seq1 = <<>> \/ seq2 = <<>> THEN << 0, 1 >>
    ELSE LET max_len == Max2(Len(seq1), Len(seq2))
         IN  << max_len - levenshtein_distance(seq1, seq2), max_len >>

\* a threshold test that lets every pair with a common action through
MeetsMinSimilarity_positive(sim) == sim[1] > 0

\* `similarity >= self.min_similarity`
MeetsMinSimilarity(sim) ==
    sim[1] * min_similarity_den >= min_similarity_num * sim[2]

\* the candidate pattern of lines 58-63
CandidatePattern(seq1_data, seq2_data, sim) ==
    [sessions |-> << seq1_data.session_id, seq2_data.session_id >>,
     similarity |-> sim,
     sequence |-> seq1_data.sequence,
     occurrences |-> 2]

\* lines 193-194: existing["sessions"].extend(...); existing["occurrences"] += 1
MergePattern(existing, pattern) ==
    [existing EXCEPT !.sessions = existing.sessions \o pattern.sessions,
                     !.occurrences = existing.occurrences + 1]

\* one iteration of the outer loop of _group_patterns: merge the pattern into
\* the first group whose template is similar, else start a new group
GroupOne(grp, pattern) ==
    LET hits == { g \in 1..Len(grp) :
                    MeetsMinSimilarity(calculate_similarity(pattern.sequence,
                                                            grp[g].sequence)) }
    IN  IF hits = {} THEN Append(grp, pattern)
        ELSE LET g == CHOOSE h \in hits : \A h2 \in hits : h <= h2
             IN  [grp EXCEPT ![g] = MergePattern(grp[g], pattern)]

\* `p["occurrences"] >= self.min_occurrences`
MeetsMinOccurrences(pattern) == pattern.occurrences >= min_occurrences

\* lines 70-73: the patterns seen often enough
RECURSIVE FilterByOccurrences(_)
FilterByOccurrences(ps) ==
    IF ps = <<>> THEN <<>>
    ELSE (IF MeetsMinOccurrences(Head(ps)) THEN << Head(ps) >> ELSE <<>>)
             \o FilterByOccurrences(Tail(ps))

\* a confidence that is the similarity alone, without the two boosts
calculate_confidence_similarity_only(pattern) == pattern.similarity

\* _calculate_confidence, as a fraction over 50 * the similarity's denominator:
\* min(1.0, similarity + min(0.3, (occurrences - min_occurrences) * 0.1)
\*               + min(0.2, len(sequence) / 50.0))
calculate_confidence(pattern) ==
    LET den == 50 * pattern.similarity[2]
        num == 50 * pattern.similarity[1]
                 + 5 * pattern.similarity[2]
                     * Min2(3, pattern.occurrences - min_occurrences)
                 + pattern.similarity[2] * Min2(10, Len(pattern.sequence))
    IN  << Min2(den, num), den >>

\* a < b for fractions with positive denominators
FracLess(a, b) == a[1] * b[2] < b[1] * a[2]

\* filtered_patterns.sort(key=confidence, reverse=True): stable, descending
RECURSIVE SortByConfidence(_)
SortByConfidence(ps) ==
    IF ps = <<>> THEN <<>>
    ELSE LET rest == SortByConfidence(Tail(ps))
             h == Head(ps)
             \* h goes in front of the first element it is not smaller than
             pos == IF \E k \in 1..Len(rest) : ~FracLess(h.confidence, rest[k].confidence)
                    THEN (CHOOSE k \in 1..Len(rest) :
                            /\ ~FracLess(h.confidence, rest[k].confidence)
                            /\ \A k2 \in 1..(k - 1) :
                                  FracLess(h.confidence, rest[k2].confidence)) - 1
                    ELSE Len(rest)
         IN  SubSeq(rest, 1, pos) \o << h >> \o SubSeq(rest, pos + 1, Len(rest))

WithConfidence(pattern) ==
    [sessions |-> pattern.sessions, similarity |-> pattern.similarity,
     sequence |-> pattern.sequence, occurrences |-> pattern.occurrences,
     confidence |-> calculate_confidence(pattern)]

\* lines 69-83: filter, score, sort
FinishPatterns(grp) ==
    LET filtered == FilterByOccurrences(grp)
    IN  SortByConfidence([k \in 1..Len(filtered) |-> WithConfidence(filtered[k])])

\* lines 37-45: sessions whose sequence is empty are left out
RECURSIVE ExtractSequences(_, _)
ExtractSequences(ss, k) ==
    IF k > Len(ss) THEN <<>>
    ELSE LET sequence == extract_action_sequence(ss[k].timeline)
         IN  (IF sequence # <<>>
              THEN << [session_id |-> ss[k].session_id, sequence |-> sequence] >>
              ELSE <<>>) \o ExtractSequences(ss, k + 1)

InitDetectPatterns ==
    /\ mode = "detect_patterns"
    /\ \E n \in 0..MaxSessions : \E f \in [1..n -> TimelinePool] :
          sessions = [k \in 1..n |-> [session_id |-> k, timeline |-> f[k]]]
    /\ pd_pc = "start" /\ sequences = <<>>
    /\ pd_i = 0 /\ pd_j = 0 /\ patterns = <<>> /\ pd_k = 0 /\ grouped = <<>>
    /\ pd_result = <<>>
    /\ execution_result = NoResult
    /\ ExecuteIdle /\ EWIdle /\ GenIdle /\ StoreIdle /\ LearnIdle /\ PureIdle

\* lines 31-33
pd_too_few ==
    /\ mode = "detect_patterns" /\ pd_pc = "start" /\ Len(sessions) < 2
    /\ pd_result' = <<>>
    /\ pd_pc' = "returned"
    /\ UNCHANGED << mode, not_pd, sessions, sequences, pd_i, pd_j, patterns,
                    pd_k, grouped >>

\* lines 37-48
pd_extract ==
    /\ mode = "detect_patterns" /\ pd_pc = "start" /\ Len(sessions) >= 2
    /\ sequences' = ExtractSequences(sessions, 1)
    /\ pd_i' = 1 /\ pd_j' = 2
    /\ pd_pc' = "pairs"
    /\ UNCHANGED << mode, not_pd, sessions, patterns, pd_k, grouped, pd_result >>

\* the pair after (a, b) in the loops of lines 49-50
NextPair(a, b, n) == IF b < n THEN << a, b + 1 >> ELSE << a + 1, a + 2 >>

\* lines 49-64: one pair of sequences
pd_pair ==
    /\ mode = "detect_patterns" /\ pd_pc = "pairs" /\ pd_j <= Len(sequences)
    /\ LET similarity == calculate_similarity(sequences[pd_i].sequence,
                                              sequences[pd_j].sequence)
       IN  patterns' =
              IF MeetsMinSimilarity(similarity)
              THEN Append(patterns,
                          CandidatePattern(sequences[pd_i], sequences[pd_j], similarity))
              ELSE patterns
    /\ pd_i' = NextPair(pd_i, pd_j, Len(sequences))[1]
    /\ pd_j' = NextPair(pd_i, pd_j, Len(sequences))[2]
    /\ UNCHANGED << mode, not_pd, sessions, pd_pc, sequences, pd_k, grouped,
                    pd_result >>

\* line 67: all pairs seen; call _group_patterns
pd_pairs_done ==
    /\ mode = "detect_patterns" /\ pd_pc = "pairs" /\ pd_j > Len(sequences)
    /\ pd_k' = 1
    /\ grouped' = <<>>
    /\ pd_pc' = "group"
    /\ UNCHANGED << mode, not_pd, sessions, sequences, pd_i, pd_j, patterns,
                    pd_result >>

\* lines 182-199: one candidate pattern
pd_group ==
    /\ mode = "detect_patterns" /\ pd_pc = "group" /\ pd_k <= Len(patterns)
    /\ grouped' = GroupOne(grouped, patterns[pd_k])
    /\ pd_k' = pd_k + 1
    /\ UNCHANGED << mode, not_pd, sessions, pd_pc, sequences, pd_i, pd_j,
                    patterns, pd_result >>

\* lines 69-83
pd_return ==
    /\ mode = "detect_patterns" /\ pd_pc = "group" /\ pd_k > Len(patterns)
    /\ pd_result' = FinishPatterns(grouped)
    /\ pd_pc' = "returned"
    /\ UNCHANGED << mode, not_pd, sessions, sequences, pd_i, pd_j, patterns,
                    pd_k, grouped >>

detect_patterns ==
    \/ pd_too_few
    \/ pd_extract
    \/ pd_pair
    \/ pd_pairs_done
    \/ pd_group
    \/ pd_return

\* ---------------------------------------- the text generator's response
\* A response is a sequence of lexical pieces: a code fence (three
\* backquotes), the word json,
\* an opening or closing brace, whitespace, prose (text with no fence and no
\* brace), the inside of a JSON object (named by the object it denotes, or
\* "bad" for a body that is not valid JSON), or a complete JSON array.
FENCE == "fence"
JSON_WORD == "json"
LBRACE == "{"
RBRACE == "}"
WS == "ws"
PROSE == "prose"
BAD_BODY == "bad"
JSON_ARRAY == "[]"

\* a JSON string and a JSON number, as values of a parsed object
Str(t) == [json_string |-> t]
Num(n) == [json_number |-> n]
IsNumber(v) == "json_number" \in DOMAIN v
IsDict(v) == "json_string" \notin DOMAIN v /\ "json_number" \notin DOMAIN v

\* dict.get(key, default)
Get(dct, key, default) == IF key \in DOMAIN dct THEN dct[key] ELSE default

\* the JSON objects the modelled generator may answer with (confidence in
\* hundredths)
PayloadIds == { "p_full", "p_dupnum", "p_nonum", "p_nofields", "p_badconf",
                "p_textsteps" }

PayloadDict(id) ==
    CASE id = "p_full" ->
           [workflow_name |-> "Open report", description |-> "opens the report",
            confidence |-> Num(80),
            steps |-> << [step_number |-> 1, action_type |-> "click",
                          target |-> "100,100", value |-> "",
                          wait_after |-> 500, verification |-> ""],
                         [step_number |-> 2, action_type |-> "type",
                          target |-> "a", value |-> "a",
                          wait_after |-> 100, verification |-> ""] >>]
      [] id = "p_dupnum" ->
           [workflow_name |-> "Open report", description |-> "opens the report",
            confidence |-> Num(80),
            steps |-> << [step_number |-> 2, action_type |-> "click",
                          target |-> "100,100", value |-> "",
                          wait_after |-> 500, verification |-> ""],
                         [step_number |-> 2, action_type |-> "type",
                          target |-> "a", value |-> "a",
                          wait_after |-> 100, verification |-> ""] >>]
      [] id = "p_nonum" ->
           [workflow_name |-> "Open report", description |-> "opens the report",
            confidence |-> Num(80),
            steps |-> << [action_type |-> "click", target |-> "100,100"],
                         [action_type |-> "type", target |-> "a"] >>]
      [] id = "p_nofields" ->
           [category |-> "general"]
      [] id = "p_badconf" ->
           [workflow_name |-> "Open report", description |-> "opens the report",
            confidence |-> Str("high"),
            steps |-> << [step_number |-> 1, action_type |-> "click",
                          target |-> "100,100", value |-> "",
                          wait_after |-> 500, verification |-> ""] >>]
      [] id = "p_textsteps" ->
           [workflow_name |-> "Open report", description |-> "opens the report",
            confidence |-> Num(80),
            steps |-> << Str("Step 1"), Str("Step 2") >>]

\* the shapes a response delivers an object in
Fenced(body) == << FENCE, JSON_WORD, WS, LBRACE, body, RBRACE, WS, FENCE >>
PlainFenced(body) == << PROSE, WS, FENCE, WS, LBRACE, body, RBRACE, WS, FENCE >>
Bare(body) == << LBRACE, body, RBRACE >>
ProseWrapped(body) == << PROSE, WS, LBRACE, body, RBRACE, WS, PROSE >>
UnclosedFence(body) == << FENCE, JSON_WORD, WS, LBRACE, body, RBRACE >>

Responses ==
    UNION { { Fenced(b), PlainFenced(b), Bare(b), ProseWrapped(b) } :
              b \in PayloadIds }
        \cup { UnclosedFence("p_full"), Bare(BAD_BODY), Fenced(BAD_BODY),
               << PROSE >>, << JSON_ARRAY >>, << WS, LBRACE, "p_full", RBRACE, WS >> }

\* _generate_fallback_response: a sentence, no JSON in it
fallback_response == << PROSE >>

\* response["message"]["content"] is None
NoContent == << None >>

\* str.find(piece, start) on 1-based positions: 0 where Python gives -1
Find(text, piece, start) ==
    IF \E k \in start..Len(text) : text[k] = piece
    THEN CHOOSE k \in start..Len(text) :
            text[k] = piece /\ \A k2 \in start..(k - 1) : text[k2] # piece
    ELSE 0

\* str.rfind(piece)
RFind(text, piece) ==
    IF \E k \in 1..Len(text) : text[k] = piece
    THEN CHOOSE k \in 1..Len(text) :
            text[k] = piece /\ \A k2 \in (k + 1)..Len(text) : text[k2] # piece
    ELSE 0

\* text.find of a fence directly followed by the word json
FindFenceJson(text) ==
    LET hits == { k \in 1..(Len(text) - 1) :
                    text[k] = FENCE /\ text[k + 1] = JSON_WORD }
    IN  IF hits = {} THEN 0 ELSE CHOOSE k \in hits : \A k2 \in hits : k <= k2

\* str.strip()
RECURSIVE Strip(_)
Strip(text) ==
    IF text = <<>> THEN <<>>
    ELSE IF Head(text) = WS THEN Strip(Tail(text))
    ELSE IF text[Len(text)] = WS THEN Strip(SubSeq(text, 1, Len(text) - 1))
    ELSE text

\* split at the fences, piece [0]: the text before the first fence
BeforeFence(text) ==
    IF Find(text, FENCE, 1) = 0 THEN text
    ELSE SubSeq(text, 1, Find(text, FENCE, 1) - 1)

\* json.loads: the object a text denotes, JSON_ARRAY for an array, or
\* "JSONDecodeError"; surrounding whitespace is accepted, nothing else is
json_loads(text) ==
    LET t == Strip(text)
    IN  IF Len(t) = 3 /\ t[1] = LBRACE /\ t[3] = RBRACE /\ t[2] \in PayloadIds
        THEN t[2]
        ELSE IF t = << JSON_ARRAY >> THEN JSON_ARRAY
        ELSE "JSONDecodeError"

\* generate_json, lines 105-108: the text handed to json.loads
generate_json_text(text) ==
    IF FindFenceJson(text) # 0
    THEN Strip(BeforeFence(SubSeq(text, FindFenceJson(text) + 2, Len(text))))
    ELSE IF Find(text, FENCE, 1) # 0
    THEN Strip(BeforeFence(SubSeq(text, Find(text, FENCE, 1) + 1, Len(text))))
    ELSE text

\* generate_json, lines 103-118, for a response that is a string
generate_json(text) ==
    LET parsed == json_loads(generate_json_text(text))
    IN  IF parsed = "JSONDecodeError" THEN "fallback_json" ELSE parsed

\* text[start:end] of Python for a start >= 0 and an end that may be -1
Slice(text, start, end) ==
    IF end = 0 THEN SubSeq(text, start, Len(text) - 1)
    ELSE SubSeq(text, start, end - 1)

\* LLMWorkflowAnalyzer._extract_json: four strategies, the first that parses
\* wins; None if none does
extract_json(text) ==
    LET s1 == LET start == FindFenceJson(text) + 2
              IN  json_loads(Strip(Slice(text, start, Find(text, FENCE, start))))
        s2 == LET start == Find(text, FENCE, 1) + 1
                  json_str == Strip(Slice(text, start, Find(text, FENCE, start)))
              IN  json_loads(IF json_str # <<>> /\ Head(json_str) = JSON_WORD
                             THEN Strip(Tail(json_str)) ELSE json_str)
        s3 == json_loads(SubSeq(text, Find(text, LBRACE, 1), RFind(text, RBRACE)))
        s4 == json_loads(Strip(text))
    IN  IF FindFenceJson(text) # 0 /\ s1 # "JSONDecodeError" THEN s1
        ELSE IF Find(text, FENCE, 1) # 0 /\ s2 # "JSONDecodeError" THEN s2
        ELSE IF Find(text, LBRACE, 1) # 0 /\ RFind(text, RBRACE) # 0
                  /\ s3 # "JSONDecodeError" THEN s3
        ELSE IF s4 # "JSONDecodeError" THEN s4
        ELSE None

\* ------------------------------ WorkflowGenerator.generate_workflow
\* `entries[:10]`
FallbackEntries == 10

\* the loop of _generate_fallback_workflow: a click step per mouse_press and
\* a type step per key_press of a single character
RECURSIVE FallbackSteps(_, _)
FallbackSteps(entries, step_num) ==
    IF entries = <<>> THEN <<>>
    ELSE LET entry == Head(entries)
         IN  IF entry.type = "event" /\ entry.event_type = "mouse_press"
             THEN << [step_number |-> step_num, action_type |-> "click",
                      target |-> entry.data, value |-> "",
                      wait_after |-> 500, verification |-> ""] >>
                      \o FallbackSteps(Tail(entries), step_num + 1)
             ELSE IF entry.type = "event" /\ entry.event_type = "key_press"
                       /\ entry.data \in { "a", "b" }
             THEN << [step_number |-> step_num, action_type |-> "type",
                      target |-> entry.data, value |-> entry.data,
                      wait_after |-> 100, verification |-> ""] >>
                      \o FallbackSteps(Tail(entries), step_num + 1)
             ELSE FallbackSteps(Tail(entries), step_num)

generate_fallback_workflow(entries) ==
    [workflow_name |-> "Recorded Workflow",
     description |-> "Automatically captured workflow",
     confidence |-> Num(50),
     steps |-> FallbackSteps(SubSeq(entries, 1, Min2(FallbackEntries, Len(entries))), 1)]

\* LLMInterface._generate_fallback_json
generate_fallback_json ==
    [workflow_name |-> "Recorded Workflow",
     description |-> "Workflow captured from user actions (LLM unavailable for analysis)",
     confidence |-> Num(30),
     steps |-> <<>>]

\* the object `workflow_json` refers to
JsonValue(ref, entries) ==
    IF ref = "fallback_json" THEN generate_fallback_json
    ELSE IF ref = "fallback_workflow" THEN generate_fallback_workflow(entries)
    ELSE PayloadDict(ref)

\* _validate_workflow raises: .get on a value that is no dict, float() of a
\* confidence that is no number, .get on a step that is no dict
ValidateRaises(ref, entries) ==
    IF ref = JSON_ARRAY THEN TRUE
    ELSE LET js == JsonValue(ref, entries)
         IN  \/ ~IsNumber(Get(js, "confidence", Num(50)))
             \/ \E k \in 1..Len(Get(js, "steps", <<>>)) : ~IsDict(js.steps[k])

\* _validate_workflow on a dict it does not raise on
validate_workflow(js) ==
    LET steps == Get(js, "steps", <<>>)
    IN  [workflow_name |-> Get(js, "workflow_name", Get(js, "name", "Unnamed Workflow")),
         description |-> Get(js, "description", ""),
         confidence |-> Get(js, "confidence", Num(50)).json_number,
         steps |-> [k \in 1..Len(steps) |->
                      [step_number |-> Get(steps[k], "step_number", k),
                       action_type |-> Get(steps[k], "action_type", "unknown"),
                       target |-> Get(steps[k], "target", ""),
                       value |-> Get(steps[k], "value", ""),
                       wait_after |-> Get(steps[k], "wait_after", 500),
                       verification |-> Get(steps[k], "verification", "")]]]

\* generate_workflow is called directly, or by learn_from_session
GenModes == { "generate", "learn" }

InitGenerate ==
    /\ mode = "generate"
    /\ gen_timeline \in TimelinePool
    /\ llm_reply \in Responses
    /\ is_connected \in BOOLEAN
    /\ gen_pc = "generate" /\ attempt = 0 /\ response_text = <<>>
    /\ workflow_json = "" /\ gen_workflow = NoResult
    /\ gen_threw = FALSE /\ gen_unavailable = FALSE /\ chat_calls = 0
    /\ execution_result = NoResult
    /\ ExecuteIdle /\ EWIdle /\ PDIdle /\ StoreIdle /\ LearnIdle /\ PureIdle

\* generate, line 40: connected, go to the retry loop
gen_connected ==
    /\ mode \in GenModes /\ gen_pc = "generate" /\ is_connected
    /\ attempt' = 0
    /\ gen_pc' = "attempt"
    /\ UNCHANGED chat_calls
    /\ UNCHANGED << mode, not_gen, gen_timeline, llm_reply, is_connected,
                    response_text, workflow_json, gen_workflow, gen_threw,
                    gen_unavailable >>

\* generate, lines 40-44: test_connection succeeds
gen_reconnect ==
    /\ mode \in GenModes /\ gen_pc = "generate" /\ ~is_connected
    /\ is_connected' = TRUE
    /\ attempt' = 0
    /\ gen_pc' = "attempt"
    /\ UNCHANGED chat_calls
    /\ UNCHANGED << mode, not_gen, gen_timeline, llm_reply, response_text,
                    workflow_json, gen_workflow, gen_threw, gen_unavailable >>

\* generate, lines 40-44: test_connection fails, the fallback response
gen_reconnect_failed ==
    /\ mode \in GenModes /\ gen_pc = "generate" /\ ~is_connected
    /\ response_text' = fallback_response
    /\ gen_unavailable' = TRUE
    /\ gen_pc' = "extract"
    /\ UNCHANGED chat_calls
    /\ UNCHANGED << mode, not_gen, gen_timeline, llm_reply, is_connected,
                    attempt, workflow_json, gen_workflow, gen_threw >>

\* generate, lines 57-69: ollama.chat answers
gen_chat_ok ==
    /\ mode \in GenModes /\ gen_pc = "attempt" /\ attempt < max_retries
    /\ response_text' = llm_reply
    /\ gen_pc' = "extract"
    /\ chat_calls' = chat_calls + 1
    /\ UNCHANGED << mode, not_gen, gen_timeline, llm_reply, is_connected,
                    attempt, workflow_json, gen_workflow, gen_threw,
                    gen_unavailable >>

\* generate, lines 57-69: ollama.chat answers with no content
gen_chat_no_content ==
    /\ mode \in GenModes /\ gen_pc = "attempt" /\ attempt < max_retries
    /\ response_text' = NoContent
    /\ gen_pc' = "extract"
    /\ chat_calls' = chat_calls + 1
    /\ UNCHANGED << mode, not_gen, gen_timeline, llm_reply, is_connected,
                    attempt, workflow_json, gen_workflow, gen_threw,
                    gen_unavailable >>

\* generate, lines 71-75: ResponseError, model not found
gen_chat_model_not_found ==
    /\ mode \in GenModes /\ gen_pc = "attempt" /\ attempt < max_retries
    /\ response_text' = fallback_response
    /\ gen_threw' = TRUE
    /\ gen_unavailable' = TRUE
    /\ gen_pc' = "extract"
    /\ chat_calls' = chat_calls + 1
    /\ UNCHANGED << mode, not_gen, gen_timeline, llm_reply, is_connected,
                    attempt, workflow_json, gen_workflow >>

\* generate, lines 71-73: any other ResponseError, straight to the next attempt
gen_chat_response_error ==
    /\ mode \in GenModes /\ gen_pc = "attempt" /\ attempt < max_retries
    /\ attempt' = attempt + 1
    /\ gen_threw' = TRUE
    /\ chat_calls' = chat_calls + 1
    /\ UNCHANGED << mode, not_gen, gen_timeline, llm_reply, is_connected,
                    gen_pc, response_text, workflow_json, gen_workflow,
                    gen_unavailable >>

\* generate, lines 77-83: any other exception; back off and retry, or give
\* the fallback response after the last attempt
gen_chat_exception ==
    /\ mode \in GenModes /\ gen_pc = "attempt" /\ attempt < max_retries
    /\ gen_threw' = TRUE
    /\ IF attempt < max_retries - 1
       THEN /\ attempt' = attempt + 1
            /\ UNCHANGED << gen_pc, response_text, gen_unavailable >>
       ELSE /\ response_text' = fallback_response
            /\ gen_unavailable' = TRUE
            /\ gen_pc' = "extract"
            /\ UNCHANGED attempt
    /\ chat_calls' = chat_calls + 1
    /\ UNCHANGED << mode, not_gen, gen_timeline, llm_reply, is_connected,
                    workflow_json, gen_workflow >>

\* generate, lines 57-65: ollama.chat is called without self.timeout, and the
\* server never answers
gen_chat_no_answer ==
    /\ mode \in GenModes /\ gen_pc = "attempt" /\ attempt < max_retries
    /\ chat_calls' = chat_calls + 1
    /\ gen_pc' = "blocked"
    /\ UNCHANGED << mode, not_gen, gen_timeline, llm_reply, is_connected,
                    attempt, response_text, workflow_json, gen_workflow,
                    gen_threw, gen_unavailable >>

\* generate, line 85: the loop ran out
gen_retries_exhausted ==
    /\ mode \in GenModes /\ gen_pc = "attempt" /\ attempt = max_retries
    /\ response_text' = fallback_response
    /\ gen_unavailable' = TRUE
    /\ gen_pc' = "extract"
    /\ UNCHANGED chat_calls
    /\ UNCHANGED << mode, not_gen, gen_timeline, llm_reply, is_connected,
                    attempt, workflow_json, gen_workflow, gen_threw >>

\* generate_json, lines 103-118, returns to generate_workflow line 38
gen_json_returned ==
    /\ mode \in GenModes /\ gen_pc = "extract" /\ response_text # NoContent
    /\ workflow_json' = generate_json(response_text)
    /\ gen_pc' = "validate"
    /\ UNCHANGED chat_calls
    /\ UNCHANGED << mode, not_gen, gen_timeline, llm_reply, is_connected,
                    attempt, response_text, gen_workflow, gen_threw,
                    gen_unavailable >>

\* generate_json, line 105: `in` on None raises TypeError, which is no
\* JSONDecodeError; generate_workflow lines 39-42 catch it
gen_json_raised ==
    /\ mode \in GenModes /\ gen_pc = "extract" /\ response_text = NoContent
    /\ workflow_json' = "fallback_workflow"
    /\ gen_pc' = "validate"
    /\ UNCHANGED chat_calls
    /\ UNCHANGED << mode, not_gen, gen_timeline, llm_reply, is_connected,
                    attempt, response_text, gen_workflow, gen_threw,
                    gen_unavailable >>

\* generate_workflow, lines 45-48
gen_validated ==
    /\ mode \in GenModes /\ gen_pc = "validate"
    /\ ~ValidateRaises(workflow_json, gen_timeline)
    /\ gen_workflow' = validate_workflow(JsonValue(workflow_json, gen_timeline))
    /\ gen_pc' = "returned"
    /\ UNCHANGED chat_calls
    /\ UNCHANGED << mode, not_gen, gen_timeline, llm_reply, is_connected,
                    attempt, response_text, workflow_json, gen_threw,
                    gen_unavailable >>

\* generate_workflow, line 45: _validate_workflow raises, nothing catches it
gen_validate_raised ==
    /\ mode \in GenModes /\ gen_pc = "validate"
    /\ ValidateRaises(workflow_json, gen_timeline)
    /\ gen_pc' = "raised"
    /\ UNCHANGED chat_calls
    /\ UNCHANGED << mode, not_gen, gen_timeline, llm_reply, is_connected,
                    attempt, response_text, workflow_json, gen_workflow,
                    gen_threw, gen_unavailable >>

generate_workflow ==
    \/ gen_connected
    \/ gen_reconnect
    \/ gen_reconnect_failed
    \/ gen_chat_ok
    \/ gen_chat_no_content
    \/ gen_chat_model_not_found
    \/ gen_chat_response_error
    \/ gen_chat_exception
    \/ gen_chat_no_answer
    \/ gen_retries_exhausted
    \/ gen_json_returned
    \/ gen_json_raised
    \/ gen_validated
    \/ gen_validate_raised

\* ------------------------------------------------------------ Database
\* what dict.get(key) gives for a missing key, and SQL NULL
NULL == "NULL"

\* json.dumps of a list for a JSON column, and json.loads of that column
json_dumps(value) == [json_text |-> value]
json_loads_column(text) == text.json_text

\* add_workflow raises sqlite3.IntegrityError: `name TEXT NOT NULL`
AddWorkflowRaises(workflow_data) == Get(workflow_data, "name", NULL) = NULL

\* the row add_workflow inserts, lines 117-131
WorkflowRow(id, workflow_data) ==
    [id |-> id,
     name |-> Get(workflow_data, "name", NULL),
     description |-> Get(workflow_data, "description", NULL),
     steps |-> json_dumps(Get(workflow_data, "steps", <<>>)),
     confidence |-> Get(workflow_data, "confidence", 0),
     times_run |-> 0,
     times_succeeded |-> 0]

\* _row_to_dict: the JSON column is parsed back (a JSON text is never empty)
row_to_dict(row) == [row EXCEPT !.steps = json_loads_column(row.steps)]

\* get_workflow
get_workflow(rows, workflow_id) ==
    IF \E row \in rows : row.id = workflow_id
    THEN row_to_dict(CHOOSE row \in rows : row.id = workflow_id)
    ELSE NoResult

\* the workflow of test_headless, and workflows the generator produces
TestWorkflow ==
    [name |-> "Test Workflow", description |-> "Test description",
     confidence |-> 85,
     steps |-> << [step_number |-> 1, action_type |-> "click",
                   target |-> "100,100"] >>]

StoreWorkflows ==
    { TestWorkflow,
      validate_workflow(PayloadDict("p_full")),
      validate_workflow(generate_fallback_json),
      validate_workflow(generate_fallback_workflow(TimelineD)) }

InitStore ==
    /\ mode = "store"
    /\ st_w \in StoreWorkflows
    /\ \/ db_workflows = {} /\ db_seq = 0
       \/ db_workflows = { WorkflowRow(1, TestWorkflow) } /\ db_seq = 1
       \/ db_workflows = {} /\ db_seq = 1
    /\ db_sessions = <<>>
    /\ st_id = 0 /\ st_got = NoResult /\ st_pc = "start"
    /\ execution_result = NoResult
    /\ ExecuteIdle /\ EWIdle /\ PDIdle /\ GenIdle /\ LearnIdle /\ PureIdle

\* add_workflow, lines 106-136
st_add_workflow ==
    /\ mode = "store" /\ st_pc = "start"
    /\ IF AddWorkflowRaises(st_w)
       THEN /\ st_pc' = "raised"
            /\ UNCHANGED << db_workflows, db_seq, st_id >>
       ELSE /\ db_workflows' = db_workflows \cup { WorkflowRow(db_seq + 1, st_w) }
            /\ db_seq' = db_seq + 1
            /\ st_id' = db_seq + 1
            /\ st_pc' = "added"
    /\ UNCHANGED << mode, not_st, db_sessions, st_w, st_got >>

\* get_workflow, lines 138-153
st_get_workflow ==
    /\ mode = "store" /\ st_pc \in { "added", "deleted" }
    /\ st_got' = get_workflow(db_workflows, st_id)
    /\ st_pc' = IF st_pc = "added" THEN "got" ELSE "got_after_delete"
    /\ UNCHANGED << mode, not_st, db_vars, st_w, st_id >>

\* delete_workflow, lines 203-212
st_delete_workflow ==
    /\ mode = "store" /\ st_pc = "got"
    /\ db_workflows' = { row \in db_workflows : row.id # st_id }
    /\ st_pc' = "deleted"
    /\ UNCHANGED << mode, not_st, db_seq, db_sessions, st_w, st_id, st_got >>

store ==
    \/ st_add_workflow
    \/ st_get_workflow
    \/ st_delete_workflow

\* ------------------------------------- LearningEngine.learn_from_session
\* a row of the sessions table together with the session's timeline file
StoredSession(entries, learned_workflow_id, has_timeline) ==
    [learned_workflow_id |-> learned_workflow_id, has_timeline |-> has_timeline,
     timeline |-> entries]

StoredSessions ==
    { StoredSession(TimelineA, 1, TRUE), StoredSession(TimelineB, 1, TRUE),
      StoredSession(TimelineD, 1, TRUE), StoredSession(TimelineA, 0, TRUE),
      StoredSession(TimelineA, 1, FALSE), StoredSession(TimelineF, 1, TRUE) }

\* lines 185-186: the event_type of every entry of type "event"
RECURSIVE EventTypes(_)
EventTypes(entries) ==
    IF entries = <<>> THEN <<>>
    ELSE (IF Head(entries).type = "event"
          THEN << Head(entries).event_type >> ELSE <<>>)
             \o EventTypes(Tail(entries))

\* _calculate_timeline_similarity
calculate_timeline_similarity(entries1, entries2) ==
    calculate_similarity(EventTypes(entries1), EventTypes(entries2))

\* _find_similar_sessions: the learned sessions with a timeline file that is
\* similar enough, in table order
RECURSIVE find_similar_sessions(_, _, _)
find_similar_sessions(entries, rows, k) ==
    IF k > Len(rows) THEN <<>>
    ELSE (IF /\ rows[k].learned_workflow_id # 0
             /\ rows[k].has_timeline
             /\ MeetsMinSimilarity(calculate_timeline_similarity(entries,
                                                                rows[k].timeline))
          THEN << k >> ELSE <<>>)
             \o find_similar_sessions(entries, rows, k + 1)

\* a threshold that the session alone already meets
PatternDetected_alone(similar) == Len(similar) >= 0

\* line 57
PatternDetected(similar) == Len(similar) >= min_occurrences - 1

\* _calculate_pattern_confidence, in hundredths
calculate_pattern_confidence(n) == Min2(80, 50 + (n - min_occurrences) * 10)

\* lines 68-69: the generated workflow with the pattern's information
EnhancedWorkflow(w, similar) ==
    [workflow_name |-> w.workflow_name, description |-> w.description,
     confidence |-> w.confidence, steps |-> w.steps,
     pattern_confidence |-> calculate_pattern_confidence(Len(similar) + 1),
     sessions_used |-> Append(similar, 0)]

InitLearn ==
    /\ mode = "learn"
    /\ le_timeline_ok \in BOOLEAN
    /\ le_timeline \in { TimelineA, TimelineD, TimelineF }
    /\ le_timeline_ok = FALSE => le_timeline = TimelineF
    /\ db_sessions \in SeqsUpTo(StoredSessions, MaxStored)
    /\ \/ db_workflows = {} /\ db_seq = 0
       \/ db_workflows = { WorkflowRow(1, TestWorkflow) } /\ db_seq = 1
    /\ db_workflows_before = db_workflows
    /\ le_pc = "start" /\ similar_sessions = <<>> /\ le_result = NoResult
    /\ llm_reply \in { Bare("p_full"), Bare("p_badconf"), << PROSE >> }
    /\ is_connected \in BOOLEAN
    /\ gen_timeline = <<>> /\ gen_pc = "idle" /\ attempt = 0
    /\ response_text = <<>> /\ workflow_json = "" /\ gen_workflow = NoResult
    /\ gen_threw = FALSE /\ gen_unavailable = FALSE /\ chat_calls = 0
    /\ st_w = NoResult /\ st_id = 0 /\ st_got = NoResult /\ st_pc = "idle"
    /\ execution_result = NoResult
    /\ ExecuteIdle /\ EWIdle /\ PDIdle /\ PureIdle

\* lines 42-52: no timeline.json, or it does not load
le_no_timeline ==
    /\ mode = "learn" /\ le_pc = "start" /\ ~le_timeline_ok
    /\ le_result' = NoResult
    /\ le_pc' = "returned"
    /\ UNCHANGED << mode, not_le, gen_vars, db_vars, le_timeline_ok,
                    le_timeline, similar_sessions, db_workflows_before >>

\* line 55
le_find_similar ==
    /\ mode = "learn" /\ le_pc = "start" /\ le_timeline_ok
    /\ similar_sessions' = find_similar_sessions(le_timeline, db_sessions, 1)
    /\ le_pc' = "decide"
    /\ UNCHANGED << mode, not_le, gen_vars, db_vars, le_timeline_ok,
                    le_timeline, le_result, db_workflows_before >>

\* lines 57, 78-79: not enough similar sessions
le_no_pattern ==
    /\ mode = "learn" /\ le_pc = "decide" /\ ~PatternDetected(similar_sessions)
    /\ le_result' = NoResult
    /\ le_pc' = "returned"
    /\ UNCHANGED << mode, not_le, gen_vars, db_vars, le_timeline_ok,
                    le_timeline, similar_sessions, db_workflows_before >>

\* lines 57-65: pattern detected, generate_workflow is called
le_generate ==
    /\ mode = "learn" /\ le_pc = "decide" /\ PatternDetected(similar_sessions)
    /\ gen_timeline' = le_timeline
    /\ gen_pc' = "generate"
    /\ le_pc' = "generating"
    /\ UNCHANGED chat_calls
    /\ UNCHANGED << mode, not_le, db_vars, le_timeline_ok, le_timeline,
                    similar_sessions, le_result, db_workflows_before,
                    llm_reply, is_connected, attempt, response_text,
                    workflow_json, gen_workflow, gen_threw, gen_unavailable >>

\* line 65: generate_workflow raised; learn_from_session has no handler
le_generate_raised ==
    /\ mode = "learn" /\ le_pc = "generating" /\ gen_pc = "raised"
    /\ le_pc' = "raised"
    /\ UNCHANGED << mode, not_le, gen_vars, db_vars, le_timeline_ok,
                    le_timeline, similar_sessions, le_result,
                    db_workflows_before >>

\* lines 68-76: enhance the workflow, add it to the store, return it
le_add_workflow ==
    /\ mode = "learn" /\ le_pc = "generating" /\ gen_pc = "returned"
    /\ LET w == EnhancedWorkflow(gen_workflow, similar_sessions)
       IN  IF AddWorkflowRaises(w)
           THEN /\ le_pc' = "raised"
                /\ UNCHANGED << db_workflows, db_seq, le_result >>
           ELSE /\ db_workflows' = db_workflows \cup { WorkflowRow(db_seq + 1, w) }
                /\ db_seq' = db_seq + 1
                /\ le_result' = [workflow |-> w, id |-> db_seq + 1]
                /\ le_pc' = "returned"
    /\ UNCHANGED << mode, not_le, gen_vars, db_sessions, le_timeline_ok,
                    le_timeline, similar_sessions, db_workflows_before >>

learn_from_session ==
    \/ le_no_timeline
    \/ le_find_similar
    \/ le_no_pattern
    \/ le_generate
    \/ le_generate_raised
    \/ le_add_workflow

\* ------------------------------- PatternDetector._calculate_similarity
\* the action strings the compared sequences are made of
SimTokens == { << "click", "100,100" >>, << "type", "a" >> }

InitSimilarity ==
    /\ mode = "similarity"
    /\ sq_a \in SeqsUpTo(SimTokens, MaxLen)
    /\ sq_b \in SeqsUpTo(SimTokens, MaxLen)
    /\ sq_c \in SeqsUpTo(SimTokens, MaxLen)
    /\ sim_pc = "start"
    /\ sim_ab = << 0, 1 >> /\ sim_ba = << 0, 1 >>
    /\ dist_ab = 0 /\ dist_bc = 0 /\ dist_ac = 0
    /\ execution_result = NoResult
    /\ ExecuteIdle /\ EWIdle /\ LearnAllIdle /\ ExIdle /\ LgIdle /\ CmpIdle /\ PlIdle
    /\ GuiIdle

\* the caller asks for the similarity of a and b, both ways round
sim_calculate_similarity ==
    /\ mode = "similarity" /\ sim_pc = "start"
    /\ sim_ab' = calculate_similarity(sq_a, sq_b)
    /\ sim_ba' = calculate_similarity(sq_b, sq_a)
    /\ sim_pc' = "similarity"
    /\ UNCHANGED << mode, not_sim, sq_a, sq_b, sq_c, dist_ab, dist_bc, dist_ac >>

\* the caller asks for the three distances
sim_levenshtein_distance ==
    /\ mode = "similarity" /\ sim_pc = "similarity"
    /\ dist_ab' = levenshtein_distance(sq_a, sq_b)
    /\ dist_bc' = levenshtein_distance(sq_b, sq_c)
    /\ dist_ac' = levenshtein_distance(sq_a, sq_c)
    /\ sim_pc' = "done"
    /\ UNCHANGED << mode, not_sim, sq_a, sq_b, sq_c, sim_ab, sim_ba >>

similarity ==
    \/ sim_calculate_similarity
    \/ sim_levenshtein_distance

\* ---------------------------- PatternDetector._extract_action_sequence
\* DataFusion._merge_data: the three kinds of timeline entry, each with the
\* time it was recorded at
TimedEvent(et, d) == [timestamp |-> 0, type |-> "event", event_type |-> et, data |-> d]
TimedOcr(t) == [timestamp |-> 0, type |-> "ocr", text |-> t]
TimedTranscript(t) == [timestamp |-> 0, type |-> "transcript", text |-> t]

\* what EventTracker records, and the texts of the other two sources
TimelineEntries ==
    { TimedEvent("mouse_press", "100,100"), TimedEvent("mouse_release", "100,100"),
      TimedEvent("mouse_scroll", "0,-1"), TimedEvent("key_press", "a"),
      TimedEvent("window_change", "Notepad"),
      TimedOcr("File Edit"), TimedTranscript("open the file") }

\* the entries of tl recorded at start, start + stride, ...: _merge_data sorts
\* the timeline by timestamp
RecordedAt(tl, start, stride) ==
    [k \in 1..Len(tl) |-> [tl[k] EXCEPT !.timestamp = start + stride * (k - 1)]]

InitExtract ==
    /\ mode = "extract"
    /\ \E tl \in SeqsUpTo(TimelineEntries, MaxEntries) :
       \E start \in 0..MaxShift, stride \in 1..2 :
          /\ ex_timeline = RecordedAt(tl, 1, 1)
          /\ ex_timeline_before = RecordedAt(tl, 1, 1)
          /\ ex_retimed = RecordedAt(tl, start, stride)
    /\ ex_pc = "start"
    /\ ex_sequence = <<>> /\ ex_sequence_retimed = <<>>
    /\ ex_sequence_again = <<>>
    /\ execution_result = NoResult
    /\ ExecuteIdle /\ EWIdle /\ LearnAllIdle /\ SimIdle /\ LgIdle /\ CmpIdle /\ PlIdle
    /\ GuiIdle

\* the two recordings are extracted
ex_extract ==
    /\ mode = "extract" /\ ex_pc = "start"
    /\ ex_sequence' = extract_action_sequence(ex_timeline)
    /\ ex_sequence_retimed' = extract_action_sequence(ex_retimed)
    /\ ex_pc' = "extracted"
    /\ UNCHANGED << mode, not_ex, ex_timeline, ex_timeline_before, ex_retimed,
                    ex_sequence_again >>

\* the first recording is extracted a second time
ex_extract_again ==
    /\ mode = "extract" /\ ex_pc = "extracted"
    /\ ex_sequence_again' = extract_action_sequence(ex_timeline)
    /\ ex_pc' = "done"
    /\ UNCHANGED << mode, not_ex, ex_timeline, ex_timeline_before, ex_retimed,
                    ex_sequence, ex_sequence_retimed >>

extract ==
    \/ ex_extract
    \/ ex_extract_again

\* ------------------------------------- the store and the threads using it
Threads == { "main", "learning", "execution" }

\* sqlite3.connect is called without check_same_thread = False: every use of
\* the connection by a thread other than the one that opened it raises
\* sqlite3.ProgrammingError
SameThread(t) == t = conn_thread

\* MainWindow opens the store on the main thread; a Database opened by the
\* thread that then uses it is the store working on its own
InitLog ==
    /\ mode = "log"
    /\ conn_thread \in Threads
    /\ lg_pc = [t \in StoreThreads |-> "idle"]
    /\ lg_result = FALSE
    /\ lg_db = EmptyStore /\ lg_tx = EmptyStore /\ lg_in_tx = {}
    /\ lg_runs = 0 /\ lg_runs_succeeded = 0
    /\ lg_issued = [t \in StoreThreads |-> 0]
    /\ lg_carried_out = [t \in StoreThreads |-> 0]
    /\ lg_partial_commit = FALSE
    /\ execution_result = NoResult
    /\ ExecuteIdle /\ EWIdle /\ LearnAllIdle /\ SimIdle /\ ExIdle /\ CmpIdle /\ PlIdle
    /\ GuiIdle

\* _execute_workflow: result = self.executor.execute(workflow), then the
\* call of log_execution
lg_execute ==
    /\ mode = "log" /\ lg_pc["execution"] = "idle" /\ lg_runs < MaxRuns
    /\ \E ok \in BOOLEAN :
          /\ lg_result' = ok
          /\ lg_runs_succeeded' = lg_runs_succeeded + (IF ok THEN 1 ELSE 0)
    /\ lg_runs' = lg_runs + 1
    /\ lg_issued' = [lg_issued EXCEPT !["execution"] = @ + 1]
    /\ lg_pc' = [lg_pc EXCEPT !["execution"] = "log_execution"]
    /\ UNCHANGED << mode, not_lg, conn_thread, lg_db, lg_tx, lg_in_tx,
                    lg_carried_out, lg_partial_commit >>

\* log_execution: cursor = self.conn.cursor(); the ProgrammingError of a
\* foreign thread is caught by _execute_workflow ("Failed to log execution")
lg_log_cursor ==
    /\ mode = "log" /\ lg_pc["execution"] = "log_execution"
    /\ lg_pc' = [lg_pc EXCEPT !["execution"] =
                    IF SameThread("execution") THEN "log_insert" ELSE "idle"]
    /\ UNCHANGED << mode, not_lg, conn_thread, lg_result, lg_db, lg_tx, lg_in_tx,
                    lg_runs, lg_runs_succeeded, lg_issued, lg_carried_out,
                    lg_partial_commit >>

\* log_execution: INSERT INTO execution_logs
lg_log_insert ==
    /\ mode = "log" /\ lg_pc["execution"] = "log_insert"
    /\ lg_tx' = [lg_tx EXCEPT !.execution_logs =
                    Append(@, [workflow_id |-> 1, success |-> lg_result])]
    /\ lg_in_tx' = lg_in_tx \cup { "execution" }
    /\ lg_pc' = [lg_pc EXCEPT !["execution"] = "log_update"]
    /\ UNCHANGED << mode, not_lg, conn_thread, lg_result, lg_db, lg_runs,
                    lg_runs_succeeded, lg_issued, lg_carried_out,
                    lg_partial_commit >>

\* log_execution: UPDATE workflows SET times_run = times_run + 1, and
\* times_succeeded with it after a successful run
lg_log_update ==
    /\ mode = "log" /\ lg_pc["execution"] = "log_update"
    /\ lg_tx' = [lg_tx EXCEPT !.times_run = @ + 1,
                              !.times_succeeded = @ + (IF lg_result THEN 1 ELSE 0)]
    /\ lg_pc' = [lg_pc EXCEPT !["execution"] = "log_commit"]
    /\ UNCHANGED << mode, not_lg, conn_thread, lg_result, lg_db, lg_in_tx, lg_runs,
                    lg_runs_succeeded, lg_issued, lg_carried_out,
                    lg_partial_commit >>

\* self.conn.commit(): everything the connection has pending is published
Commit(t) ==
    /\ lg_db' = lg_tx
    /\ lg_partial_commit' = (lg_partial_commit \/ lg_in_tx \ { t } # {})
    /\ lg_in_tx' = {}
    /\ lg_carried_out' = [lg_carried_out EXCEPT ![t] = @ + 1]

\* log_execution: self.conn.commit() and return
lg_log_commit ==
    /\ mode = "log" /\ lg_pc["execution"] = "log_commit"
    /\ Commit("execution")
    /\ lg_pc' = [lg_pc EXCEPT !["execution"] = "idle"]
    /\ UNCHANGED << mode, not_lg, conn_thread, lg_result, lg_tx, lg_runs,
                    lg_runs_succeeded, lg_issued >>

\* _process_session on the learning thread: learn_from_session reaches
\* self.database.add_workflow(workflow)
lg_process_session ==
    /\ mode = "log" /\ lg_pc["learning"] = "idle"
    /\ lg_issued' = [lg_issued EXCEPT !["learning"] = @ + 1]
    /\ lg_pc' = [lg_pc EXCEPT !["learning"] = "add_workflow"]
    /\ UNCHANGED << mode, not_lg, conn_thread, lg_result, lg_db, lg_tx, lg_in_tx,
                    lg_runs, lg_runs_succeeded, lg_carried_out,
                    lg_partial_commit >>

\* add_workflow: cursor = self.conn.cursor(); the ProgrammingError of a
\* foreign thread is caught by _process_session ("Workflow learning failed")
lg_add_cursor ==
    /\ mode = "log" /\ lg_pc["learning"] = "add_workflow"
    /\ lg_pc' = [lg_pc EXCEPT !["learning"] =
                    IF SameThread("learning") THEN "add_insert" ELSE "done"]
    /\ UNCHANGED << mode, not_lg, conn_thread, lg_result, lg_db, lg_tx, lg_in_tx,
                    lg_runs, lg_runs_succeeded, lg_issued, lg_carried_out,
                    lg_partial_commit >>

\* add_workflow: INSERT INTO workflows
lg_add_insert ==
    /\ mode = "log" /\ lg_pc["learning"] = "add_insert"
    /\ lg_tx' = [lg_tx EXCEPT !.added = @ + 1]
    /\ lg_in_tx' = lg_in_tx \cup { "learning" }
    /\ lg_pc' = [lg_pc EXCEPT !["learning"] = "add_commit"]
    /\ UNCHANGED << mode, not_lg, conn_thread, lg_result, lg_db, lg_runs,
                    lg_runs_succeeded, lg_issued, lg_carried_out,
                    lg_partial_commit >>

\* add_workflow: self.conn.commit() and return
lg_add_commit ==
    /\ mode = "log" /\ lg_pc["learning"] = "add_commit"
    /\ Commit("learning")
    /\ lg_pc' = [lg_pc EXCEPT !["learning"] = "done"]
    /\ UNCHANGED << mode, not_lg, conn_thread, lg_result, lg_tx, lg_runs,
                    lg_runs_succeeded, lg_issued >>

log ==
    \/ lg_execute
    \/ lg_log_cursor
    \/ lg_log_insert
    \/ lg_log_update
    \/ lg_log_commit
    \/ lg_process_session
    \/ lg_add_cursor
    \/ lg_add_insert
    \/ lg_add_commit

\* ------------------------------------- the two similarity paths compared
\* timeline entries: two clicks at different places, a key press, an ocr text
ComparedEntries ==
    { Ev("mouse_press", "100,100"), Ev("mouse_press", "105,102"),
      Ev("key_press", "a"), Ocr("File Edit View") }

InitCompare ==
    /\ mode = "compare"
    /\ cmp_timeline1 \in SeqsUpTo(ComparedEntries, MaxCompared)
    /\ cmp_timeline2 \in SeqsUpTo(ComparedEntries, MaxCompared)
    /\ cmp_pc = "start"
    /\ cmp_engine = << 0, 1 >> /\ cmp_detector = << 0, 1 >>
    /\ execution_result = NoResult
    /\ ExecuteIdle /\ EWIdle /\ LearnAllIdle /\ SimIdle /\ ExIdle /\ LgIdle /\ PlIdle
    /\ GuiIdle

\* the single-session path: _calculate_timeline_similarity of the timelines
cmp_calculate_timeline_similarity ==
    /\ mode = "compare" /\ cmp_pc = "start"
    /\ cmp_engine' = calculate_timeline_similarity(cmp_timeline1, cmp_timeline2)
    /\ cmp_pc' = "engine"
    /\ UNCHANGED << mode, not_cmp, cmp_timeline1, cmp_timeline2, cmp_detector >>

\* the batch path: detect_patterns lines 40 and 51-54 on the same timelines
cmp_detector_similarity ==
    /\ mode = "compare" /\ cmp_pc = "engine"
    /\ cmp_detector' = calculate_similarity(extract_action_sequence(cmp_timeline1),
                                            extract_action_sequence(cmp_timeline2))
    /\ cmp_pc' = "done"
    /\ UNCHANGED << mode, not_cmp, cmp_timeline1, cmp_timeline2, cmp_engine >>

compare ==
    \/ cmp_calculate_timeline_similarity
    \/ cmp_detector_similarity

\* ------------------------------------- MainWindow._process_session, repeated
\* the timelines of the sessions a user records
RecordedTimelines == { TimelineA, TimelineB, TimelineD }

\* the sessions table before the first recording: empty, or sessions without
\* a learned workflow, or sessions that carry one
InitialStores ==
    { <<>>,
      << StoredSession(TimelineA, 0, TRUE), StoredSession(TimelineB, 0, TRUE) >>,
      << StoredSession(TimelineA, 1, TRUE), StoredSession(TimelineB, 1, TRUE) >> }

InitPipeline ==
    /\ mode = "pipeline"
    /\ pl_sessions \in InitialStores
    /\ pl_unlearned_start =
          (\A k \in 1..Len(pl_sessions) : pl_sessions[k].learned_workflow_id = 0)
    /\ pl_pc = "record" /\ pl_timeline = <<>>
    /\ pl_workflow = 0 /\ pl_workflows = 0 /\ pl_recorded = 0
    /\ execution_result = NoResult
    /\ ExecuteIdle /\ EWIdle /\ LearnAllIdle /\ SimIdle /\ ExIdle /\ LgIdle
    /\ CmpIdle /\ GuiIdle

\* a session is recorded and its timeline is created
pl_create_timeline ==
    /\ mode = "pipeline" /\ pl_pc = "record" /\ pl_recorded < MaxRecorded
    /\ pl_timeline' \in RecordedTimelines
    /\ pl_recorded' = pl_recorded + 1
    /\ pl_pc' = "learn"
    /\ UNCHANGED << mode, not_pl, pl_sessions, pl_workflow, pl_workflows,
                    pl_unlearned_start >>

\* learn_from_session: a workflow is generated and stored when enough
\* learned sessions are similar, else None
pl_learn_from_session ==
    /\ mode = "pipeline" /\ pl_pc = "learn"
    /\ IF PatternDetected(find_similar_sessions(pl_timeline, pl_sessions, 1))
       THEN /\ pl_workflows' = pl_workflows + 1
            /\ pl_workflow' = pl_workflows + 1
       ELSE /\ pl_workflow' = 0
            /\ UNCHANGED pl_workflows
    /\ pl_pc' = "add_session"
    /\ UNCHANGED << mode, not_pl, pl_sessions, pl_timeline, pl_recorded,
                    pl_unlearned_start >>

\* session_summary["learned_workflow_id"] = workflow.get("id") if workflow
\* else None; self.database.add_session(session_summary)
pl_add_session ==
    /\ mode = "pipeline" /\ pl_pc = "add_session"
    /\ pl_sessions' = Append(pl_sessions, StoredSession(pl_timeline, pl_workflow, TRUE))
    /\ pl_pc' = "record"
    /\ UNCHANGED << mode, not_pl, pl_timeline, pl_workflow, pl_workflows,
                    pl_recorded, pl_unlearned_start >>

pipeline ==
    \/ pl_create_timeline
    \/ pl_learn_from_session
    \/ pl_add_session

\* ------------------------------- AutomationGUI and the threads it starts
\* the workflow selected in the list box; two actions
SelectedWorkflow == << 1, 2 >>

\* what execute_selected sets up: a launch whose thread does not exist yet
NewLaunch == [pc |-> "countdown", i |-> 0, dispatched |-> 0, early |-> "none"]

InitGui ==
    /\ mode = "gui"
    /\ GuiIdle
    /\ execution_result = NoResult
    /\ ExecuteIdle /\ EWIdle /\ LearnAllIdle /\ SimIdle /\ ExIdle /\ LgIdle
    /\ CmpIdle /\ PlIdle

\* the main thread is inside execute_selected, in its countdown
InCountdown ==
    /\ gui_threads # <<>>
    /\ gui_threads[Len(gui_threads)].pc = "countdown"

\* the thread of launch t exists and execute_workflow has not returned in it
Alive(t) == gui_threads[t].pc \in { "start", "loop", "pause_check", "in_action",
                                    "finally" }

\* launch t has not reached the run loop yet: countdown, or the thread has not
\* executed the first statement of execute_workflow
BeforeRunLoop(t) == gui_threads[t].pc \in { "countdown", "start" }

\* the request the latest launch received before its run loop began
NoteEarly(kind) ==
    IF gui_threads # <<>> /\ BeforeRunLoop(Len(gui_threads))
    THEN [gui_threads EXCEPT ![Len(gui_threads)].early = kind]
    ELSE gui_threads

\* _execution_complete: Execute enabled, Pause and Stop disabled
execution_complete_buttons ==
    /\ execute_btn' = "normal"
    /\ pause_btn' = "disabled"
    /\ stop_btn' = "disabled"

\* execute_selected, lines 598-602: the user confirmed; prepare the UI
gui_execute_selected ==
    /\ mode = "gui" /\ ~InCountdown
    /\ execute_btn = "normal"
    /\ Len(gui_threads) < MaxLaunches
    /\ execute_btn' = "disabled"
    /\ pause_btn' = "normal"
    /\ stop_btn' = "normal"
    /\ gui_countdown' = Countdown
    /\ gui_threads' = Append(gui_threads, NewLaunch)
    /\ UNCHANGED << mode, not_gui, gui_is_running, gui_paused >>

\* lines 605-609: one iteration of the countdown; window.update() lets the
\* pending events (clicks, posted callbacks) run between the iterations
gui_countdown_tick ==
    /\ mode = "gui" /\ InCountdown /\ gui_countdown > 0
    /\ gui_countdown' = gui_countdown - 1
    /\ UNCHANGED << mode, not_gui, gui_is_running, gui_paused, execute_btn,
                    pause_btn, stop_btn, gui_threads >>

\* lines 613-620: the execution thread is created and started
gui_thread_start ==
    /\ mode = "gui" /\ InCountdown /\ gui_countdown = 0
    /\ gui_threads' = [gui_threads EXCEPT ![Len(gui_threads)].pc = "start"]
    /\ UNCHANGED << mode, not_gui, gui_is_running, gui_paused, execute_btn,
                    pause_btn, stop_btn, gui_countdown >>

\* execute_workflow lines 69-70 in thread t
gt_start(t) ==
    /\ gui_threads[t].pc = "start"
    /\ gui_is_running' = TRUE
    /\ gui_paused' = FALSE
    /\ gui_threads' = [gui_threads EXCEPT ![t].pc = "loop", ![t].i = 1]
    /\ UNCHANGED << mode, not_gui, execute_btn, pause_btn, stop_btn, gui_countdown >>

\* line 84: the action list is exhausted
gt_loop_end(t) ==
    /\ gui_threads[t].pc = "loop" /\ gui_threads[t].i > Len(SelectedWorkflow)
    /\ gui_threads' = [gui_threads EXCEPT ![t].pc = "finally"]
    /\ UNCHANGED << mode, not_gui, gui_is_running, gui_paused, execute_btn,
                    pause_btn, stop_btn, gui_countdown >>

\* lines 86-89: stopped; break
gt_stopped(t) ==
    /\ gui_threads[t].pc = "loop" /\ gui_threads[t].i <= Len(SelectedWorkflow)
    /\ ~gui_is_running
    /\ gui_threads' = [gui_threads EXCEPT ![t].pc = "finally"]
    /\ UNCHANGED << mode, not_gui, gui_is_running, gui_paused, execute_btn,
                    pause_btn, stop_btn, gui_countdown >>

\* line 86: not stopped; go on to the pause loop
gt_not_stopped(t) ==
    /\ gui_threads[t].pc = "loop" /\ gui_threads[t].i <= Len(SelectedWorkflow)
    /\ gui_is_running
    /\ gui_threads' = [gui_threads EXCEPT ![t].pc = "pause_check"]
    /\ UNCHANGED << mode, not_gui, gui_is_running, gui_paused, execute_btn,
                    pause_btn, stop_btn, gui_countdown >>

\* lines 92-100: the pause loop is left (while it holds the thread only
\* sleeps) and the action is given to _execute_action
gt_dispatch(t) ==
    /\ gui_threads[t].pc = "pause_check"
    /\ ~PauseLoopCond(gui_paused, gui_is_running)
    /\ gui_threads' = [gui_threads EXCEPT ![t].pc = "in_action",
                          ![t].dispatched = gui_threads[t].dispatched + 1]
    /\ UNCHANGED << mode, not_gui, gui_is_running, gui_paused, execute_btn,
                    pause_btn, stop_btn, gui_countdown >>

\* lines 100-105: the action returned or raised; next iteration
gt_action_done(t) ==
    /\ gui_threads[t].pc = "in_action"
    /\ gui_threads' = [gui_threads EXCEPT ![t].pc = "loop",
                                          ![t].i = gui_threads[t].i + 1]
    /\ UNCHANGED << mode, not_gui, gui_is_running, gui_paused, execute_btn,
                    pause_btn, stop_btn, gui_countdown >>

\* lines 118-120 of execute_workflow, then _execute_workflow_thread posts
\* _execution_complete to the main thread (line 627)
gt_finally(t) ==
    /\ gui_threads[t].pc = "finally"
    /\ gui_is_running' = FALSE
    /\ gui_paused' = FALSE
    /\ gui_threads' = [gui_threads EXCEPT ![t].pc = "posted"]
    /\ UNCHANGED << mode, not_gui, execute_btn, pause_btn, stop_btn, gui_countdown >>

\* _execution_complete, run by the main thread for the callback thread t posted
gui_execution_complete(t) ==
    /\ gui_threads[t].pc = "posted"
    /\ execution_complete_buttons
    /\ gui_threads' = [gui_threads EXCEPT ![t].pc = "done"]
    /\ UNCHANGED << mode, not_gui, gui_is_running, gui_paused, gui_countdown >>

\* pause_execution: the Pause button toggles between pause() and resume()
gui_pause_execution ==
    /\ mode = "gui" /\ pause_btn = "normal"
    /\ gui_paused' = ~gui_paused
    /\ gui_threads' = NoteEarly(IF gui_paused THEN "none" ELSE "pause")
    /\ UNCHANGED << mode, not_gui, gui_is_running, execute_btn, pause_btn, stop_btn,
                    gui_countdown >>

\* stop_execution: executor.stop(), then _execution_complete() at once
gui_stop_execution ==
    /\ mode = "gui" /\ stop_btn = "normal"
    /\ gui_is_running' = FALSE
    /\ gui_paused' = FALSE
    /\ execution_complete_buttons
    /\ gui_threads' = NoteEarly("stop")
    /\ UNCHANGED << mode, not_gui, gui_countdown >>

gui_thread ==
    /\ mode = "gui"
    /\ \E t \in 1..Len(gui_threads) :
          \/ gt_start(t)
          \/ gt_loop_end(t)
          \/ gt_stopped(t)
          \/ gt_not_stopped(t)
          \/ gt_dispatch(t)
          \/ gt_action_done(t)
          \/ gt_finally(t)

gui_posted ==
    /\ mode = "gui"
    /\ \E t \in 1..Len(gui_threads) : gui_execution_complete(t)

gui ==
    \/ gui_execute_selected
    \/ gui_countdown_tick
    \/ gui_thread_start
    \/ gui_thread
    \/ gui_posted
    \/ gui_pause_execution
    \/ gui_stop_execution

\* ------------------------------------------------------- specification
Init ==
    \/ InitExecute
    \/ InitExecuteWorkflow
    \/ InitDetectPatterns
    \/ InitGenerate
    \/ InitStore
    \/ InitLearn
    \/ InitSimilarity
    \/ InitExtract
    \/ InitLog
    \/ InitCompare
    \/ InitPipeline
    \/ InitGui

Next ==
    \/ execute
    \/ execute_workflow
    \/ pause
    \/ resume
    \/ stop
    \/ detect_patterns
    \/ generate_workflow
    \/ store
    \/ learn_from_session
    \/ similarity
    \/ extract
    \/ log
    \/ compare
    \/ pipeline
    \/ gui

Spec == Init /\ [][Next]_vars

\* generate and its callers run on one thread that is never starved
GenFairSpec == Spec /\ WF_vars(generate_workflow)

\* The execution thread keeps being scheduled; the controlling thread may
\* stay silent forever
FairSpec == Spec /\ WF_vars(execute_workflow)

\* ----------------------------------------------------------- properties
Range(f) == { f[k] : k \in DOMAIN f }

Last(f) == f[Len(f)]

\* index of the first step whose outcome is failure, 0 if none
FirstFailure(os) ==
    IF \E k \in 1..Len(os) : ~os[k]
    THEN CHOOSE k \in 1..Len(os) : ~os[k] /\ \A j \in 1..(k - 1) : os[j]
    ELSE 0

\* C1: stop on first failure. Once a step's outcome is success=false, no
\* later step is dispatched to a handler and the run does not report
\* success - for execute and for execute_workflow alike.
C1_StopOnFirstFailure ==
    /\ mode = "execute" =>
          \A k \in 1..Len(outcomes) : ~outcomes[k] =>
              /\ i = k
              /\ \A h \in Range(handler_calls) : h <= k
              /\ pc = "returned" => ~execution_result.success
    /\ mode = "execute_workflow" =>
          (failed_at # 0 =>
              /\ \A d \in Range(dispatched) : d <= failed_at
              /\ "completed" \notin Range(callbacks))

\* C2: for a workflow of n steps whose first failing step is step k, the
\* ExecutionResult has steps_completed = k-1, steps_total = n, success = false.
C2_FirstFailureCounts ==
    (mode = "execute" /\ pc = "returned" /\ FirstFailure(outcomes) # 0) =>
        /\ execution_result.steps_completed = FirstFailure(outcomes) - 1
        /\ execution_result.steps_total = Len(StepsOf(workflow))
        /\ execution_result.success = FALSE

\* the spec's case: two steps, the second one's handler returns false
C2_Witness ==
    /\ mode = "execute" /\ pc = "returned"
    /\ Len(StepsOf(workflow)) = 2
    /\ outcomes = << TRUE, FALSE >>
    /\ handler_calls = << 1, 2 >> /\ verify_calls = <<>>
    /\ Last(results).error = None
    /\ execution_result.steps_completed = 1

\* C3: whenever a run ends because a step failed (handler raised, handler
\* returned false, verification did not match), the failure is recorded on
\* that StepResult and ExecutionResult.error_message is non-null.
C3_FailureSetsErrorMessage ==
    (mode = "execute" /\ pc = "returned" /\ results # <<>>
        /\ ~Last(results).success) =>
        /\ Last(results).error # None
        /\ execution_result.error_message # None

\* stop() arrived after some action had been dispatched and kept at least
\* one action from being dispatched
StoppedMidRun ==
    /\ stop_called
    /\ dispatched_at_stop >= 1
    /\ Len(dispatched) < Len(actions)

\* C4: a run stopped mid-way by stop(), with no handler failure, yields an
\* ExecutionResult with success = false and error_message = null.
C4_StoppedRunResult ==
    (mode = "execute_workflow" /\ ew_pc = "returned" /\ StoppedMidRun
        /\ failed_at = 0) =>
        /\ execution_result.kind = "ExecutionResult"
        /\ execution_result.success = FALSE
        /\ execution_result.error_message = None

\* C5: with pause() and resume() interleaved in any way and no stop(), a
\* run dispatches the actions in list order, none skipped and none repeated,
\* and has dispatched every one of them once the loop is left.
C5_PauseResumeRunsEveryStepOnce ==
    mode = "execute_workflow" =>
        /\ \A k \in 1..Len(dispatched) : dispatched[k] = k
        /\ Len(dispatched) <= Len(actions)
        /\ (ew_pc \in { "after_loop", "finally", "returned" } /\ available
              /\ ~stop_called) => Len(dispatched) = Len(actions)

\* a run that waited behind a pause, was resumed and ran to its end
C5_Witness ==
    /\ mode = "execute_workflow" /\ ew_pc = "returned"
    /\ pause_seen /\ ~stop_called
    /\ Len(actions) >= 2
    /\ dispatched = actions
    /\ "completed" \in Range(callbacks)

\* C6: stop() called while the run is paused - the action that was waiting
\* behind the pause is not dispatched, nor any later one.
C6_StopWhilePausedDispatchesNothing ==
    (mode = "execute_workflow" /\ stopped_in_pause) =>
        Len(dispatched) = dispatched_at_stop

\* C7: a stop request issued while the run is paused ends the run: the pause
\* loop exits and execute_workflow returns.
C7_StopWhilePausedEndsRun ==
    (mode = "execute_workflow" /\ stopped_in_pause) ~> (ew_pc = "returned")

\* a run that was stopped inside the pause loop and has returned
C7_Witness ==
    /\ mode = "execute_workflow" /\ ew_pc = "returned"
    /\ pause_seen /\ stopped_in_pause

\* C8: every invocation of an executor that gets to run hands a complete
\* ExecutionResult to its caller; none ends without a result or with an
\* exception escaping.
C8_AlwaysCompleteResult ==
    /\ pc # "raised"
    /\ (pc = "returned" \/ (ew_pc = "returned" /\ available)) =>
          execution_result.kind = "ExecutionResult"

C10_UnknownActionStopsRun ==
    mode = "execute" =>
        /\ \A k \in 1..Len(results) :
              results[k].action_type \notin action_handlers =>
                  /\ ~results[k].success
                  /\ results[k].error = "Unknown action type"
                  /\ k \notin Range(handler_calls)
                  /\ k = Len(results) /\ i = k
                  /\ pc \in { "finish", "returned" }
        /\ (pc \in { "sleep", "verify", "record" }
              /\ StepsOf(workflow)[i].action_type \notin action_handlers) =>
                  /\ ~success
                  /\ error = "Unknown action type"
                  /\ i \notin Range(handler_calls)

\* a three-step run that ended at its second step, which has no handler
C10_Witness ==
    /\ mode = "execute" /\ pc = "returned"
    /\ Len(StepsOf(workflow)) = 3
    /\ Len(results) = 2
    /\ results[2].action_type = "teleport"
    /\ execution_result.error_message = "Unknown action type"

\* ------------------------------------------------- pattern detection
\* the extracted sequence of the session with the given id
SeqOf(id) == (CHOOSE s \in Range(sequences) : s.session_id = id).sequence

\* the two sequences are at least min_similarity alike
SimilarPair(seq1, seq2) ==
    LET sim == calculate_similarity(seq1, seq2)
    IN  sim[1] * min_similarity_den >= min_similarity_num * sim[2]

AllPairsSimilar ==
    \A a, b \in 1..Len(sequences) :
        a < b => SimilarPair(sequences[a].sequence, sequences[b].sequence)

NoPairSimilar ==
    \A a, b \in 1..Len(sequences) :
        a < b => ~SimilarPair(sequences[a].sequence, sequences[b].sequence)

\* C13: three sequences that are pairwise at least 0.8 similar, with
\* min_occurrences 3, give exactly one pattern, and its occurrences is 3.
C13_ThreeSimilarGiveOnePatternOfThree ==
    (/\ mode = "detect_patterns" /\ pd_pc = "returned"
     /\ Len(sequences) = 3 /\ AllPairsSimilar)
        => /\ Len(pd_result) = 1
           /\ pd_result[1].occurrences = 3

\* C14: a pair of sequences below min_similarity never forms a candidate
\* pattern, and when no pair reaches min_similarity detect_patterns returns
\* no pattern at all.
C14_DissimilarPairsGiveNoPattern ==
    mode = "detect_patterns" =>
        /\ \A k \in 1..Len(patterns) :
              SimilarPair(SeqOf(patterns[k].sessions[1]),
                          SeqOf(patterns[k].sessions[2]))
        /\ (pd_pc = "returned" /\ NoPairSimilar) => pd_result = <<>>

\* two sessions whose sequences are 0.5 similar went through detection
C14_Witness ==
    /\ mode = "detect_patterns" /\ pd_pc = "returned"
    /\ Len(sequences) = 2
    /\ calculate_similarity(sequences[1].sequence, sequences[2].sequence) = << 1, 2 >>
    /\ patterns = <<>>
    /\ pd_result = <<>>

NoDuplicates(seq) == Cardinality(Range(seq)) = Len(seq)

\* C15: merging a pattern into a group makes the group's session ids the set
\* union of both (no session id occurs twice in a returned pattern) and adds
\* one to the group's occurrences per merge.
C15_MergeIsSetUnion ==
    mode = "detect_patterns" =>
        /\ \A g \in 1..Len(grouped) :
              grouped[g].occurrences * 2 = Len(grouped[g].sessions) + 2
        /\ \A k \in 1..Len(pd_result) : NoDuplicates(pd_result[k].sessions)

\* ------------------------------------------------ workflow generation
\* the timeline holds at least one click or single-character key press
HasRawEvents(entries) == FallbackSteps(entries, 1) # <<>>

GenReturned == mode = "generate" /\ gen_pc = "returned"

GenEnded == mode = "generate" /\ gen_pc \in { "returned", "raised" }

\* C16: if the text generator throws during generate_workflow (and no retry
\* rescues the call), the returned workflow is non-empty, its confidence is
\* at most 0.5 and at least one of its steps comes from the timeline's raw
\* events.
C16_GeneratorThrowsGivesEventSteps ==
    (GenEnded /\ gen_threw /\ gen_unavailable /\ HasRawEvents(gen_timeline))
        => /\ gen_pc = "returned"
           /\ gen_workflow.steps # <<>>
           /\ gen_workflow.confidence <= 50
           /\ \E k \in 1..Len(gen_workflow.steps) :
                 gen_workflow.steps[k] \in Range(FallbackSteps(gen_timeline, 1))

RequiredFields == { "workflow_name", "description", "steps", "confidence" }

\* a parsed value whose required fields are absent or wrong-typed
RequiredFieldsBad(ref) ==
    IF ref = JSON_ARRAY THEN TRUE
    ELSE \/ ~(RequiredFields \subseteq DOMAIN PayloadDict(ref))
         \/ ~IsNumber(PayloadDict(ref).confidence)
         \/ \E k \in 1..Len(PayloadDict(ref).steps) : ~IsDict(PayloadDict(ref).steps[k])

\* the generator's output cannot be used: the generator is unavailable, or
\* its response has no content, or generate_json cannot parse it, or the
\* parsed value lacks required fields
OutputUnusable ==
    \/ gen_unavailable
    \/ response_text = NoContent
    \/ json_loads(generate_json_text(response_text)) = "JSONDecodeError"
    \/ RequiredFieldsBad(json_loads(generate_json_text(response_text)))

\* C17: whenever the generator's output cannot be used, generate_workflow
\* returns the workflow synthesized from the timeline's raw click and key
\* press events, one step per event, so the result has at least one step
\* and no error reaches the caller.
C17_UnusableOutputFallsBackToEvents ==
    (GenEnded /\ OutputUnusable /\ HasRawEvents(gen_timeline))
        => /\ gen_pc = "returned"
           /\ gen_workflow.steps = FallbackSteps(gen_timeline, 1)
           /\ Len(gen_workflow.steps) >= 1

\* C18: in every workflow generate_workflow returns, steps[i].step_number is
\* i + 1 (here: the k-th step, counted from 1, has step_number k), whatever
\* step_number values the generator supplied.
C18_StepNumbersDense ==
    GenReturned =>
        \A k \in 1..Len(gen_workflow.steps) : gen_workflow.steps[k].step_number = k

\* the response delivers the object b in one of the three shapes
InThreeShapes(text, b) == text \in { Fenced(b), Bare(b), ProseWrapped(b) }

\* C19: JSON extraction yields the same object, the delivered one, whether
\* the payload comes in json fences, bare, or with prose before and after:
\* for generate_json (used by generate_workflow) and for _extract_json.
C19_ExtractionShapeIndependent ==
    (mode = "generate" /\ gen_pc \in { "validate", "returned", "raised" })
        => \A b \in PayloadIds :
              InThreeShapes(response_text, b)
                  => /\ workflow_json = b
                     /\ extract_json(response_text) = b

\* ------------------------------------------------ learning and the store
LearnEnded == mode = "learn" /\ le_pc \in { "returned", "raised" }

\* C11: a caller of learn_from_session gets a workflow or the "no pattern
\* yet" value; no exception escapes, whatever the generator answers,
\* whatever timelines are stored, whether or not the store accepts the
\* workflow.
C11_NoExceptionEscapesLearning ==
    mode = "learn" => le_pc # "raised"

\* the already-learned stored sessions whose timeline is at least
\* min_similarity like the current session's
SimilarLearned ==
    { k \in 1..Len(db_sessions) :
        /\ db_sessions[k].learned_workflow_id # 0
        /\ db_sessions[k].has_timeline
        /\ SimilarPair(EventTypes(le_timeline), EventTypes(db_sessions[k].timeline)) }

\* C12: learn_from_session generates a workflow and persists it exactly when
\* the similar already-learned sessions plus the current one number at
\* least min_occurrences; otherwise it returns "no pattern yet", generates
\* nothing and leaves the workflows table as it was.
C12_PatternIffEnoughSimilarSessions ==
    (LearnEnded /\ le_timeline_ok) =>
        IF Cardinality(SimilarLearned) + 1 >= min_occurrences
        THEN /\ le_pc = "returned"
             /\ le_result # NoResult
             /\ \E row \in db_workflows \ db_workflows_before : row.id = le_result.id
        ELSE /\ le_pc = "returned"
             /\ le_result = NoResult
             /\ gen_pc = "idle"
             /\ db_workflows = db_workflows_before

\* w's name, under either key
NameOf(w) == Get(w, "name", Get(w, "workflow_name", NULL))

\* C20: for any workflow w, also one the generator produced,
\* get_workflow(add_workflow(w)) succeeds and gives w's steps, in order and
\* field by field, and w's name; after delete_workflow(id),
\* get_workflow(id) gives nothing.
C20_StoreRoundTrip ==
    mode = "store" =>
        /\ st_pc # "raised"
        /\ st_pc = "got" =>
              /\ st_got # NoResult
              /\ st_got.steps = st_w.steps
              /\ st_got.name = NameOf(st_w)
        /\ st_pc = "got_after_delete" => st_got = NoResult

\* ---------------------------------------------------------- similarity
SimDone == mode = "similarity" /\ sim_pc = "done"

\* equality of two fractions with positive denominators
FracEq(x, y) == x[1] * y[2] = y[1] * x[2]

\* C21: for every non-empty sequence s, similarity(s, s) is 1.0.
C21_SelfSimilarityIsOne ==
    (SimDone /\ sq_a # <<>> /\ sq_a = sq_b) => FracEq(sim_ab, << 1, 1 >>)

\* a sequence of the longest modelled length was compared with itself
C21_Witness ==
    /\ SimDone /\ sq_a = sq_b /\ Len(sq_a) = MaxLen
    /\ sim_ab[1] = MaxLen /\ sim_ab[2] = MaxLen

\* the classic edit distance, insertion, deletion and substitution at cost 1
\* each, stated on the suffixes of the two sequences
ClassicLevenshtein(x, y) ==
    LET m == Len(x)
        n == Len(y)
        ed[a \in 1..(m + 1), b \in 1..(n + 1)] ==
            IF a = m + 1 THEN n + 1 - b
            ELSE IF b = n + 1 THEN m + 1 - a
            ELSE Min2(ed[a + 1, b] + 1,
                      Min2(ed[a, b + 1] + 1,
                           ed[a + 1, b + 1] + (IF x[a] = y[b] THEN 0 ELSE 1)))
    IN  ed[1, 1]

\* C22: similarity(a, b) is 1 - L(a, b) / max(len(a), len(b)) with L the
\* classic Levenshtein distance when both are non-empty, 0.0 when either or
\* both are empty, and always lies in [0, 1].
C22_SimilarityIsNormalisedLevenshtein ==
    SimDone =>
        /\ (sq_a # <<>> /\ sq_b # <<>>) =>
              FracEq(sim_ab, << Max2(Len(sq_a), Len(sq_b)) - ClassicLevenshtein(sq_a, sq_b),
                                Max2(Len(sq_a), Len(sq_b)) >>)
        /\ (sq_a = <<>> \/ sq_b = <<>>) => FracEq(sim_ab, << 0, 1 >>)
        /\ sim_ab[2] > 0 /\ 0 <= sim_ab[1] /\ sim_ab[1] <= sim_ab[2]

\* two sequences of different lengths, one edit apart from a common prefix
C22_Witness ==
    /\ SimDone /\ Len(sq_a) = 2 /\ Len(sq_b) = 3
    /\ dist_ab = 2
    /\ sim_ab = << 1, 3 >>

\* C23: similarity is symmetric, similarity(a, b) = similarity(b, a).
C23_SimilaritySymmetric ==
    SimDone => FracEq(sim_ab, sim_ba)

\* two different non-empty sequences of different lengths were compared
C23_Witness ==
    /\ SimDone /\ Len(sq_a) = 1 /\ Len(sq_b) = MaxLen
    /\ sim_ab[1] > 0 /\ sim_ba[1] > 0

\* C24: the distance satisfies the triangle inequality,
\* distance(a, c) <= distance(a, b) + distance(b, c).
C24_TriangleInequality ==
    SimDone => dist_ac <= dist_ab + dist_bc

\* three pairwise different sequences for which the inequality is tight
C24_Witness ==
    /\ SimDone /\ sq_a # sq_b /\ sq_b # sq_c /\ sq_a # sq_c
    /\ dist_ab >= 1 /\ dist_bc >= 1
    /\ dist_ac = dist_ab + dist_bc

\* ---------------------------------------------------------- extraction
ExDone == mode = "extract" /\ ex_pc = "done"

TokenKinds == { "mouse_press", "key_press", "window_change" }

\* the entries the sequence extractor is said to emit a token for
RECURSIVE TokenEntries(_)
TokenEntries(entries) ==
    IF entries = <<>> THEN <<>>
    ELSE (IF Head(entries).type = "event" /\ Head(entries).event_type \in TokenKinds
          THEN << Head(entries) >> ELSE <<>>) \o TokenEntries(Tail(entries))

\* C25: the extractor emits a token only for events of kind mouse_press,
\* key_press and window_change, in timeline order; every other entry (ocr,
\* transcript, other events such as mouse_release or mouse_scroll) contributes
\* no token.
C25_OnlyThreeKindsEmitTokens ==
    ExDone =>
        /\ Len(ex_sequence) = Len(TokenEntries(ex_timeline))
        /\ \A k \in 1..Len(ex_sequence) :
              ex_sequence[k][2] = TokenEntries(ex_timeline)[k].data

\* C26: extraction is pure: two timelines that differ only in their
\* timestamps give identical sequences, and extracting twice gives the same
\* sequence and leaves the timeline as it was.
C26_ExtractionIsPure ==
    ExDone =>
        /\ ex_sequence_retimed = ex_sequence
        /\ ex_sequence_again = ex_sequence
        /\ ex_timeline = ex_timeline_before

\* a timeline of MaxEntries entries with events and an ocr text, recorded at
\* other times, was extracted
C26_Witness ==
    /\ ExDone /\ Len(ex_timeline) = MaxEntries
    /\ \E k \in 1..Len(ex_timeline) : ex_timeline[k].timestamp # ex_retimed[k].timestamp
    /\ \E k \in 1..Len(ex_timeline) : ex_timeline[k].type = "ocr"
    /\ Len(ex_sequence) = MaxEntries - 1
    /\ ex_sequence_retimed = ex_sequence /\ ex_sequence_again = ex_sequence

\* ------------------------------------------------------- execution log
\* C27: every executor run is persisted as exactly one appended execution-log
\* entry: between runs the number of log entries equals the number of runs,
\* times_run equals that number and times_succeeded the number of successful
\* runs.
C27_OneLogEntryPerRun ==
    (mode = "log" /\ lg_pc["execution"] = "idle") =>
        /\ Len(lg_db.execution_logs) = lg_runs
        /\ lg_db.times_run = lg_runs
        /\ lg_db.times_succeeded = lg_runs_succeeded

\* C28: store operations issued concurrently by the learning thread and the
\* execution thread are serialized: every operation a thread has called and
\* returned from was carried out as a whole, and no commit published a part
\* of another thread's operation.
C28_ConcurrentOperationsSerialized ==
    mode = "log" =>
        /\ ~lg_partial_commit
        /\ lg_pc["learning"] = "done" =>
              lg_carried_out["learning"] = lg_issued["learning"]
        /\ lg_pc["execution"] = "idle" =>
              lg_carried_out["execution"] = lg_issued["execution"]

\* ------------------------------------------------- LLMInterface.generate
\* generate has returned to generate_json
GenerateReturned == gen_pc \in { "extract", "validate", "returned", "raised" }

\* C29: LLMInterface.generate always terminates, makes at most max_retries
\* calls of the generator, and returns a string, the fallback response when
\* every attempt fails or the generator is unreachable, instead of raising.
C29_GenerateTerminatesWithString ==
    /\ [](mode = "generate" => chat_calls <= max_retries)
    /\ []((mode = "generate" /\ GenerateReturned) =>
             /\ response_text # NoContent
             /\ gen_unavailable => response_text = fallback_response)
    /\ (mode = "generate") ~> GenerateReturned

\* ------------------------------------------------- pattern confidence
\* x + y for fractions
FracSum(x, y) == << x[1] * y[2] + y[1] * x[2], x[2] * y[2] >>

\* the smaller of two fractions with positive denominators
FracMin(x, y) == IF x[1] * y[2] <= y[1] * x[2] THEN x ELSE y

\* min(1.0, similarity + min(0.3, (occurrences - minOccurrences) * 0.1)
\*                     + min(0.2, templateLength / 50))
StatedConfidence(pattern) ==
    FracMin(<< 1, 1 >>,
            FracSum(pattern.similarity,
                    FracSum(FracMin(<< 3, 10 >>,
                                    << pattern.occurrences - min_occurrences, 10 >>),
                            FracMin(<< 2, 10 >>, << Len(pattern.sequence), 50 >>))))

\* C30: every pattern returned by detect_patterns has occurrences >=
\* min_occurrences and the stated confidence; its confidence lies in
\* [min_similarity, 1.0] and is never below its similarity.
C30_ReturnedPatternsConfidence ==
    (mode = "detect_patterns" /\ pd_pc = "returned") =>
        \A k \in 1..Len(pd_result) :
            /\ pd_result[k].occurrences >= min_occurrences
            /\ FracEq(pd_result[k].confidence, StatedConfidence(pd_result[k]))
            /\ ~FracLess(pd_result[k].confidence, pd_result[k].similarity)
            /\ ~FracLess(pd_result[k].confidence,
                         << min_similarity_num, min_similarity_den >>)
            /\ ~FracLess(<< 1, 1 >>, pd_result[k].confidence)

\* a pattern seen exactly min_occurrences times was returned, with a
\* confidence strictly between its similarity and 1.0
C30_Witness ==
    /\ mode = "detect_patterns" /\ pd_pc = "returned"
    /\ \E k \in 1..Len(pd_result) :
          /\ pd_result[k].occurrences = min_occurrences
          /\ FracLess(pd_result[k].similarity, pd_result[k].confidence)
          /\ FracLess(pd_result[k].confidence, << 1, 1 >>)

\* ------------------------------------------------- verification gating
\* C31: the verifier's comparison is invoked for a step only if the step has
\* a non-empty verification hint; a step with a hint whose comparison fails
\* is recorded with success = false; a step without a hint is recorded with
\* exactly the outcome of its handler.
C31_VerificationGating ==
    mode = "execute" =>
        /\ \A k \in 1..Len(step_calls) :
              step_calls[k].verify # "not called" =>
                  StepsOf(workflow)[k].verification # ""
        /\ \A k \in 1..Len(results) :
              /\ step_calls[k].verify = "false" => ~results[k].success
              /\ StepsOf(workflow)[k].verification = "" =>
                    results[k].success = (step_calls[k].handler = "true")

\* a run that recorded a step without a hint whose handler succeeded and then
\* a step with a hint whose handler succeeded and whose comparison failed
C31_Witness ==
    /\ mode = "execute" /\ pc = "returned" /\ Len(results) >= 2
    /\ \E k \in 1..(Len(results) - 1) :
          /\ StepsOf(workflow)[k].verification = ""
          /\ step_calls[k].handler = "true" /\ results[k].success
    /\ StepsOf(workflow)[Len(results)].verification # ""
    /\ step_calls[Len(results)] = [handler |-> "true", verify |-> "false"]
    /\ ~results[Len(results)].success

\* ------------------------------------------- ExecutionResult invariants
Returned == mode = "execute" /\ pc = "returned"

\* C36: every ExecutionResult returned by execute has steps_completed <=
\* number of recorded StepResults <= steps_total, at most one StepResult with
\* success = false, which is the last one recorded, and success = true if
\* and only if steps_completed = steps_total.
C36_ExecutionResultInvariants ==
    Returned =>
        LET er == execution_result
            failed == { k \in 1..Len(er.steps) : ~er.steps[k].success }
        IN  /\ er.steps_completed <= Len(er.steps)
            /\ Len(er.steps) <= er.steps_total
            /\ Cardinality(failed) <= 1
            /\ failed \subseteq { Len(er.steps) }
            /\ er.success <=> (er.steps_completed = er.steps_total)

\* a result of a run of MaxSteps steps that failed at its second step
C36_Witness ==
    /\ Returned
    /\ execution_result.steps_total = MaxSteps
    /\ Len(execution_result.steps) = 2
    /\ execution_result.steps_completed = 1
    /\ ~execution_result.success

\* ------------------------------------------ occurrences and session ids
\* C37: for every pattern returned by detect_patterns, occurrences equals the
\* number of distinct session ids in the pattern, and so never exceeds the
\* number of input sessions.
C37_OccurrencesCountDistinctSessions ==
    (mode = "detect_patterns" /\ pd_pc = "returned") =>
        \A k \in 1..Len(pd_result) :
            /\ pd_result[k].occurrences = Cardinality(Range(pd_result[k].sessions))
            /\ pd_result[k].occurrences <= Len(sessions)

\* ---------------------------------------------- the two similarity paths
\* C38: for any two timelines _calculate_timeline_similarity equals the
\* pattern detector's similarity of the sequences extracted from them, so a
\* pair is similar (>= min_similarity) under one path exactly when it is
\* under the other.
C38_PathsJudgeSimilarityAlike ==
    (mode = "compare" /\ cmp_pc = "done") =>
        /\ FracEq(cmp_engine, cmp_detector)
        /\ MeetsMinSimilarity(cmp_engine) <=> MeetsMinSimilarity(cmp_detector)

\* ------------------------------------------------ extraction strategies
\* the candidate texts of the four strategies, in their order, each with
\* whether the strategy applies to the response
Candidates(text) ==
    << [applies |-> FindFenceJson(text) # 0,
        text |-> IF FindFenceJson(text) = 0 THEN <<>>
                 ELSE LET start == FindFenceJson(text) + 2
                      IN  Strip(Slice(text, start, Find(text, FENCE, start)))],
       [applies |-> Find(text, FENCE, 1) # 0,
        text |-> IF Find(text, FENCE, 1) = 0 THEN <<>>
                 ELSE LET start == Find(text, FENCE, 1) + 1
                          block == Strip(Slice(text, start, Find(text, FENCE, start)))
                      IN  IF block # <<>> /\ Head(block) = JSON_WORD
                          THEN Strip(Tail(block)) ELSE block],
       [applies |-> Find(text, LBRACE, 1) # 0 /\ RFind(text, RBRACE) # 0,
        text |-> IF Find(text, LBRACE, 1) = 0 \/ RFind(text, RBRACE) = 0 THEN <<>>
                 ELSE SubSeq(text, Find(text, LBRACE, 1), RFind(text, RBRACE))],
       [applies |-> TRUE, text |-> text] >>

\* the parse of the first candidate, from the k-th on, that applies and
\* parses; "failed" when none does
RECURSIVE FirstSuccess(_, _)
FirstSuccess(cands, k) ==
    IF k > Len(cands) THEN "failed"
    ELSE IF cands[k].applies /\ json_loads(cands[k].text) # "JSONDecodeError"
    THEN json_loads(cands[k].text)
    ELSE FirstSuccess(cands, k + 1)

\* C32: JSON extraction tries its strategies in the fixed order (json fenced
\* block, any fenced block, widest braces, whole response) and returns the
\* parse of the first that succeeds; a failed earlier candidate does not stop
\* the later ones, and only when all fail is the extraction reported as
\* failed. Stated for _extract_json (failure is None) and for generate_json
\* (failure is the fallback structure).
C32_StrategiesInOrderFirstSuccessWins ==
    (mode = "generate" /\ gen_pc = "validate" /\ response_text # NoContent) =>
        LET stated == FirstSuccess(Candidates(response_text), 1)
        IN  /\ extract_json(response_text) =
                  (IF stated = "failed" THEN None ELSE stated)
            /\ workflow_json =
                  (IF stated = "failed" THEN "fallback_json" ELSE stated)

\* -------------------------------------------------------- bootstrapping
\* C33: starting from a store in which no session has a learned_workflow_id,
\* with sessions entering the store only through learn_from_session followed
\* by add_session, no call of learn_from_session detects a pattern: no
\* workflow is ever generated and no session ever becomes already-learned,
\* however many similar sessions are recorded.
C33_SingleSessionPathNeverBootstraps ==
    (mode = "pipeline" /\ pl_unlearned_start) =>
        /\ pl_workflows = 0 /\ pl_workflow = 0
        /\ \A k \in 1..Len(pl_sessions) : pl_sessions[k].learned_workflow_id = 0

\* MaxRecorded sessions with one and the same timeline went through the
\* pipeline, starting from the empty store
C33_Witness ==
    /\ mode = "pipeline" /\ pl_unlearned_start /\ pl_pc = "record"
    /\ pl_recorded = MaxRecorded /\ Len(pl_sessions) = MaxRecorded
    /\ \A k \in 1..Len(pl_sessions) : pl_sessions[k].timeline = TimelineA

\* C34: at most one workflow execution is in progress at any time: no
\* execution thread is started on the executor while the thread of an
\* earlier launch has not returned from execute_workflow, also after Stop
\* was pressed and before the old run loop has observed it.
C34_AtMostOneExecution ==
    mode = "gui" =>
        Cardinality({ t \in 1..Len(gui_threads) : Alive(t) }) <= 1

\* C35: a stop or pause request made after the Pause and Stop controls were
\* enabled, during the countdown or before the run loop begins, is not
\* lost: the launch it was made for dispatches no step (a pause that was
\* taken back by a second click is no request).
C35_EarlyRequestsNotLost ==
    mode = "gui" =>
        \A t \in 1..Len(gui_threads) :
            gui_threads[t].early # "none" => gui_threads[t].dispatched = 0

====
